---- MODULE Spec2Model ----
(***************************************************************************)
(* The editing engine of cim: CimEditor (src/src/editor.rs) over           *)
(* RopeTextBuffer (src/src/buffer.rs), driven by key events                *)
(* (src/src/input.rs) and by the renderer's draw_ui (src/src/ui.rs).       *)
(*                                                                         *)
(* The rope is a sequence of characters; every offset the code hands to    *)
(* the rope is a BYTE offset, so characters carry their UTF-8 width and    *)
(* the offsets are computed as the code computes them.                     *)
(***************************************************************************)
EXTENDS Integers, Sequences, FiniteSets, TLC

VARIABLES
    editor,   \* the CimEditor value (its fields are listed at New), and whether
              \* the process has aborted in a panic
    last      \* history: the method the last step ran, and what it returned

vars == <<editor, last>>

\* CimEditor's fields, and RopeTextBuffer's
buffer == editor.buffer
modified == editor.modified
file_path == editor.file_path
mode == editor.mode
cursor_position == editor.cursor_position
scroll_offset == editor.scroll_offset
horizontal_offset == editor.horizontal_offset
viewport_height == editor.viewport_height
viewport_width == editor.viewport_width
text_changed == editor.text_changed
panicked == editor.panicked

----------------------------------------------------------------------------
(* Bounds of the model *)

\* longest document, in characters
MaxLen == 3
\* largest viewport height and width draw_ui hands over
MaxView == 1
\* most lines of the tall documents, and most columns of the wide ones, that
\* normalize_cursor is applied to
MaxTall == 10
MaxWide == 6
\* largest scroll offsets normalize_cursor is handed with a short document
MaxOffset == 1
\* tallest viewport the editor is driven in by key events at a fixed size
MaxScroll == 2
\* longest line the word motions are applied to
MaxWord == 4
\* the longest document of the specification of actions and frames
MaxDoc == 2

----------------------------------------------------------------------------
(* Text *)

NL == "\n"
CR == "\r"
\* "~" stands for a two-byte character that is no word character, such as U+00B7
Wide == "~"
\* the characters documents are made of
Chars == {"a", Wide, NL}
\* the characters typed in Insert mode
TypedChars == Chars \ {NL}

Min(a, b) == IF a < b THEN a ELSE b
Max(a, b) == IF a > b THEN a ELSE b

\* usize/u16 saturating_sub
SatSub(a, b) == IF a > b THEN a - b ELSE 0
\* `as u16`
U16(n) == n % 65536
\* u16::saturating_add_signed
SatAddSigned(a, d) == Max(0, Min(65535, a + d))

\* char::len_utf8
Utf8Len(c) == IF c = Wide THEN 2 ELSE 1

\* str::len, Rope::len: the length in bytes
RECURSIVE ByteLen(_)
ByteLen(s) == IF s = <<>> THEN 0 ELSE Utf8Len(Head(s)) + ByteLen(Tail(s))

\* the byte offset at which character i (1-based) of s starts
RECURSIVE ByteStart(_, _)
ByteStart(s, i) == IF i <= 1 THEN 0 ELSE ByteStart(s, i - 1) + Utf8Len(s[i - 1])

\* a byte offset that falls on a character boundary of s (str::is_char_boundary)
IsBoundary(s, b) == \E i \in 1..(Len(s) + 1) : ByteStart(s, i) = b

\* the number of characters of s that start before byte offset b
RECURSIVE CharsBefore(_, _)
CharsBefore(s, b) ==
    IF s = <<>> \/ b <= 0 THEN 0 ELSE 1 + CharsBefore(Tail(s), b - Utf8Len(Head(s)))

\* Rope::measure::<LinesMetric>: the number of newline characters
RECURSIVE Measure(_)
Measure(s) ==
    IF s = <<>> THEN 0 ELSE (IF Head(s) = NL THEN 1 ELSE 0) + Measure(Tail(s))

\* Rope::offset_of_line panics on a line beyond measure + 1
OffsetOfLineOk(s, line) == line <= Measure(s) + 1

\* Rope::offset_of_line: the byte offset just after the line-th newline; the
\* line after the last newline's line starts at the end of the rope
RECURSIVE offset_of_line(_, _)
offset_of_line(s, line) ==
    IF line = 0 \/ s = <<>> THEN 0
    ELSE Utf8Len(Head(s))
         + offset_of_line(Tail(s), IF Head(s) = NL THEN line - 1 ELSE line)

\* Rope::slice panics when the range is reversed, runs past the end or cuts
\* a character
SliceOk(s, a, b) == a <= b /\ b <= ByteLen(s) /\ IsBoundary(s, a) /\ IsBoundary(s, b)

\* Rope::slice(a..b).to_string()
Slice(s, a, b) == SubSeq(s, CharsBefore(s, a) + 1, CharsBefore(s, b))

\* Rope::edit(a..b, new): the bytes a..b replaced by new
Edit(s, a, b, new) ==
    SubSeq(s, 1, CharsBefore(s, a)) \o new \o SubSeq(s, CharsBefore(s, b) + 1, Len(s))

\* str::trim_end_matches(&['\r', '\n'])
RECURSIVE TrimEnd(_)
TrimEnd(s) ==
    IF s # <<>> /\ s[Len(s)] \in {CR, NL} THEN TrimEnd(SubSeq(s, 1, Len(s) - 1)) ELSE s

\* char::is_alphanumeric() || c == '_'
\* char::is_alphanumeric on the characters of the model
Alphanumeric == {"a", "b", "f", "o", "r", "z", "1"}
IsWordChar(c) == c \in Alphanumeric \cup {"_"}

----------------------------------------------------------------------------
(* CimEditor: the methods, each from an editor value to an editor value *)

Modes == {"Normal", "Insert", "Command"}
\* overflow checks are on in a debug build and off in a release build
Builds == {"debug", "release"}

\* a panic aborts the process: nothing the method did is observed
Panic(e) == [e EXCEPT !.panicked = TRUE]

\* usize `n - 1` in a release build: 0 - 1 wraps to usize::MAX, which is
\* beyond every offset and line number of the model
WrapPred(n) == IF n = 0 THEN 2147483647 ELSE n - 1

\* update_viewport without the final clamp of scroll_offset
update_viewport_unclamped(e) ==
    LET x == e.cursor_position[1]
        y == e.cursor_position[2]
        line_count == Measure(e.buffer)
        margin == Min(2, e.viewport_height \div 4)
        so == IF y < U16(e.scroll_offset + margin)
                  THEN SatSub(y, U16(margin))
              ELSE IF y >= U16(e.scroll_offset + e.viewport_height - margin)
                  THEN SatSub(y + margin, e.viewport_height)
              ELSE e.scroll_offset
        h_margin == Min(5, e.viewport_width \div 4)
        ho == IF x < U16(e.horizontal_offset + h_margin)
                  THEN SatSub(x, U16(h_margin))
              ELSE IF x >= U16(e.horizontal_offset + e.viewport_width - h_margin)
                  THEN SatSub(x + h_margin, e.viewport_width)
              ELSE e.horizontal_offset
    IN  [e EXCEPT !.scroll_offset = so,
                  !.horizontal_offset = ho]

\* update_viewport scrolling left by the margin from where it is, not to the cursor
update_viewport_nudged(e) ==
    LET x == e.cursor_position[1]
        y == e.cursor_position[2]
        line_count == Measure(e.buffer)
        margin == Min(2, e.viewport_height \div 4)
        so == IF y < U16(e.scroll_offset + margin)
                  THEN SatSub(y, U16(margin))
              ELSE IF y >= U16(e.scroll_offset + e.viewport_height - margin)
                  THEN SatSub(y + margin, e.viewport_height)
              ELSE e.scroll_offset
        h_margin == Min(5, e.viewport_width \div 4)
        ho == IF x < U16(e.horizontal_offset + h_margin)
                  THEN SatSub(e.horizontal_offset, U16(h_margin))
              ELSE IF x >= U16(e.horizontal_offset + e.viewport_width - h_margin)
                  THEN SatSub(x + h_margin, e.viewport_width)
              ELSE e.horizontal_offset
    IN  [e EXCEPT !.scroll_offset = Min(so, SatSub(line_count, e.viewport_height)),
                  !.horizontal_offset = ho]

\* update_viewport scrolling up by the margin from where it is, not to the cursor
update_viewport_relative(e) ==
    LET y == e.cursor_position[2]
        margin == Min(2, e.viewport_height \div 4)
    IN  IF y < U16(e.scroll_offset + margin)
            THEN [e EXCEPT !.scroll_offset = SatSub(e.scroll_offset, U16(margin))]
            ELSE e

update_viewport(e) ==
    LET x == e.cursor_position[1]
        y == e.cursor_position[2]
        line_count == Measure(e.buffer)
        margin == Min(2, e.viewport_height \div 4)
        so == IF y < U16(e.scroll_offset + margin)
                  THEN SatSub(y, U16(margin))
              ELSE IF y >= U16(e.scroll_offset + e.viewport_height - margin)
                  THEN SatSub(y + margin, e.viewport_height)
              ELSE e.scroll_offset
        h_margin == Min(5, e.viewport_width \div 4)
        ho == IF x < U16(e.horizontal_offset + h_margin)
                  THEN SatSub(x, U16(h_margin))
              ELSE IF x >= U16(e.horizontal_offset + e.viewport_width - h_margin)
                  THEN SatSub(x + h_margin, e.viewport_width)
              ELSE e.horizontal_offset
    IN  [e EXCEPT !.scroll_offset = Min(so, SatSub(line_count, e.viewport_height)),
                  !.horizontal_offset = ho]

normalize_cursor(e) ==
    LET x == e.cursor_position[1]
        y == e.cursor_position[2]
        line_count == Measure(e.buffer)
        new_y == IF line_count = 0 THEN 0 ELSE Min(y, U16(line_count) - 1)
        line_start == offset_of_line(e.buffer, new_y)
        line_end == offset_of_line(e.buffer, new_y + 1)
        line == Slice(e.buffer, line_start, line_end)
        line_length == Len(TrimEnd(line))
        new_x == IF new_y # y THEN 0
                 ELSE IF line_count > 0
                     THEN IF e.mode = "Normal" /\ line_length > 0
                              THEN Min(x, U16(line_length) - 1)
                              ELSE Min(x, U16(line_length))
                 ELSE 0
    IN  update_viewport([e EXCEPT !.cursor_position = <<new_x, new_y>>])

\* update_after_edit without text_changed being set
update_after_edit_unflagged(e) ==
    update_viewport(normalize_cursor(e))

update_after_edit(e) ==
    update_viewport(normalize_cursor([e EXCEPT !.text_changed = TRUE]))

\* move_cursor with the text after the last newline counted as one more line
move_cursor_past_end(e, direction, build) ==
    LET x0 == e.cursor_position[1]
        y0 == e.cursor_position[2]
        total_lines == Measure(e.buffer) + 1
        max_y == U16(SatSub(total_lines, 1))
        y == Min(SatAddSigned(y0, direction[2]), max_y)
        line_start == offset_of_line(e.buffer, y)
        next_line_start == offset_of_line(e.buffer, y + 1)
        \* `total_lines - 1` and `next_line_start - 1` are unchecked usize
        is_last_line == y = WrapPred(total_lines)
        slice_end == IF is_last_line THEN next_line_start ELSE WrapPred(next_line_start)
        line == Slice(e.buffer, line_start, next_line_start)
        max_x == U16(SatSub(Len(line), 1))
        x == Min(SatAddSigned(x0, direction[1]), max_x)
    IN  IF build = "debug" /\ total_lines = 0 THEN Panic(e)
        ELSE IF build = "debug" /\ ~is_last_line /\ next_line_start = 0 THEN Panic(e)
        ELSE IF ~SliceOk(e.buffer, line_start, slice_end) THEN Panic(e)
        ELSE update_viewport([e EXCEPT !.cursor_position = <<x, y>>])

move_cursor(e, direction, build) ==
    LET x0 == e.cursor_position[1]
        y0 == e.cursor_position[2]
        total_lines == Measure(e.buffer)
        max_y == U16(SatSub(total_lines, 1))
        y == Min(SatAddSigned(y0, direction[2]), max_y)
        line_start == offset_of_line(e.buffer, y)
        next_line_start == offset_of_line(e.buffer, y + 1)
        \* `total_lines - 1` and `next_line_start - 1` are unchecked usize
        is_last_line == y = WrapPred(total_lines)
        slice_end == IF is_last_line THEN next_line_start ELSE WrapPred(next_line_start)
        line == Slice(e.buffer, line_start, next_line_start)
        max_x == U16(SatSub(Len(line), 1))
        x == Min(SatAddSigned(x0, direction[1]), max_x)
    IN  IF build = "debug" /\ total_lines = 0 THEN Panic(e)
        ELSE IF build = "debug" /\ ~is_last_line /\ next_line_start = 0 THEN Panic(e)
        ELSE IF ~SliceOk(e.buffer, line_start, slice_end) THEN Panic(e)
        ELSE update_viewport([e EXCEPT !.cursor_position = <<x, y>>])

\* RopeTextBuffer::insert_char
buffer_insert_char(e, pos, c) ==
    \* Rope::edit panics on an offset inside a character
    IF ~IsBoundary(e.buffer, Min(pos, ByteLen(e.buffer))) THEN Panic(e)
    ELSE [e EXCEPT !.buffer = Edit(e.buffer, pos, pos, <<c>>), !.modified = TRUE]

\* RopeTextBuffer::remove_char
buffer_remove_char(e, pos) ==
    IF pos < ByteLen(e.buffer)
        \* Rope::edit(pos..pos + 1) panics when either end is inside a character
        THEN IF ~IsBoundary(e.buffer, pos) \/ ~IsBoundary(e.buffer, pos + 1) THEN Panic(e)
             ELSE [e EXCEPT !.buffer = Edit(e.buffer, pos, pos + 1, <<>>), !.modified = TRUE]
        ELSE e

insert_char(e, c) ==
    LET x == e.cursor_position[1]
        y == e.cursor_position[2]
        line_start == offset_of_line(e.buffer, y)
        line_end == offset_of_line(e.buffer, y + 1)
        line == Slice(e.buffer, line_start, line_end)
        byte_pos == IF x >= Len(line) THEN ByteLen(line) ELSE ByteStart(line, x + 1)
        insert_pos == line_start + byte_pos
    IN  IF ~OffsetOfLineOk(e.buffer, y + 1) THEN Panic(e)
        ELSE IF c = NL
            THEN update_after_edit(
                     [e EXCEPT !.buffer = Edit(e.buffer, insert_pos, insert_pos, <<NL>>),
                               !.cursor_position = <<0, y + 1>>,
                               !.modified = TRUE])
        ELSE update_after_edit(
                 [buffer_insert_char(e, insert_pos, c) EXCEPT
                      !.cursor_position = <<x + 1, y>>])

delete_char(e) ==
    LET x == e.cursor_position[1]
        y == e.cursor_position[2]
        line_start == offset_of_line(e.buffer, y)
        line == Slice(e.buffer, line_start, offset_of_line(e.buffer, y + 1))
        \* char_indices().nth(x - 1).map_or(0, ..)
        byte_pos == IF x - 1 < Len(line) THEN ByteStart(line, x) ELSE 0
        delete_pos == line_start + byte_pos
        \* chars().nth(x - 1).unwrap_or(' ').len_utf8()
        char_len == IF x - 1 < Len(line) THEN Utf8Len(line[x]) ELSE 1
        current_line_start == offset_of_line(e.buffer, y)
        prev_line_start == offset_of_line(e.buffer, y - 1)
        prev_line_end == current_line_start - 1
        prev_line == Slice(e.buffer, prev_line_start, prev_line_end)
        prev_line_len == U16(Len(prev_line))
    IN  IF x > 0
            THEN IF ~OffsetOfLineOk(e.buffer, y + 1) THEN Panic(e)
                 ELSE IF ~IsBoundary(e.buffer, Min(delete_pos, ByteLen(e.buffer)))
                         \/ ~IsBoundary(e.buffer, Min(delete_pos + char_len, ByteLen(e.buffer)))
                     THEN Panic(e)
                 ELSE update_after_edit(
                          [e EXCEPT !.buffer = Edit(e.buffer, delete_pos,
                                                    delete_pos + char_len, <<>>),
                                    !.cursor_position = <<x - 1, y>>,
                                    !.modified = TRUE])
        ELSE IF y > 0
            THEN IF ~OffsetOfLineOk(e.buffer, y) THEN Panic(e)
                 ELSE IF ~SliceOk(e.buffer, prev_line_start, prev_line_end) THEN Panic(e)
                 ELSE update_after_edit(
                          [e EXCEPT !.buffer = Edit(e.buffer, prev_line_end,
                                                    current_line_start, <<>>),
                                    !.cursor_position = <<prev_line_len, y - 1>>,
                                    !.modified = TRUE])
        ELSE e

\* four times insert_char(' '); a panic ends the loop
insert_tab(e) ==
    LET step(f) == IF f.panicked THEN f ELSE insert_char(f, " ")
    IN  step(step(step(step(e))))

page_up(e) ==
    LET y == e.cursor_position[2]
        scroll_amount == Min(e.viewport_height, y)
    IN  normalize_cursor(
            [e EXCEPT !.cursor_position = <<e.cursor_position[1], y - U16(scroll_amount)>>,
                      !.scroll_offset = IF e.scroll_offset > scroll_amount
                                            THEN e.scroll_offset - scroll_amount
                                            ELSE 0])

page_down(e, build) ==
    LET y == e.cursor_position[2]
        max_line == U16(SatSub(Measure(e.buffer), 1))
        new_y == Min(U16(y + U16(e.viewport_height)), max_line)
        \* u16 `new_y - y`: checked in a debug build, wrapping in a release build
        moved_amount == (new_y - y) % 65536
    IN  IF build = "debug" /\ new_y < y THEN Panic(e)
        ELSE normalize_cursor(
                 [e EXCEPT !.cursor_position = <<e.cursor_position[1], new_y>>,
                           !.scroll_offset = e.scroll_offset + moved_amount])

go_to_line_start(e) ==
    update_viewport([e EXCEPT !.cursor_position = <<0, e.cursor_position[2]>>])

go_to_line_end(e) ==
    LET y == e.cursor_position[2]
        line_start == offset_of_line(e.buffer, y)
        next_line_start == offset_of_line(e.buffer, y + 1)
        line == Slice(e.buffer, line_start, next_line_start)
        line_len == U16(Len(TrimEnd(line)))
    IN  IF ~OffsetOfLineOk(e.buffer, y + 1) THEN Panic(e)
        ELSE update_viewport(
                 [e EXCEPT !.cursor_position =
                      <<IF e.mode = "Insert" THEN line_len ELSE SatSub(line_len, 1), y>>])

\* change_mode that only ever enters Insert mode
change_mode_keep(e, insert_mode) ==
    [e EXCEPT !.mode = IF insert_mode THEN "Insert" ELSE e.mode]

change_mode(e, insert_mode) ==
    [e EXCEPT !.mode = IF insert_mode THEN "Insert" ELSE "Normal"]

\* save: write_ok is whether RopeTextBuffer::save_to_file succeeds
\* CimEditor::total_lines: the rope's LinesMetric measure, its newlines
total_lines(e) == Measure(e.buffer)

\* save reporting Ok whatever the write did
save_ok_always(e, write_ok) == TRUE

save_ok(e, write_ok) == e.file_path => write_ok

save(e, write_ok) ==
    IF e.file_path /\ write_ok THEN [e EXCEPT !.text_changed = FALSE] ELSE e

\* while new_x < chars.len() && is_word(chars[new_x]) == word { new_x += 1 }
\* (new_x is 0-based, chars is 1-based here)
RECURSIVE SkipForward(_, _, _)
SkipForward(chars, new_x, word) ==
    IF new_x < Len(chars) /\ IsWordChar(chars[new_x + 1]) = word
        THEN SkipForward(chars, new_x + 1, word)
        ELSE new_x

\* while new_x > 0 && !is_word(chars[new_x]) { new_x -= 1 }
RECURSIVE SkipBackNonWord(_, _)
SkipBackNonWord(chars, new_x) ==
    IF new_x > 0 /\ ~IsWordChar(chars[new_x + 1])
        THEN SkipBackNonWord(chars, new_x - 1)
        ELSE new_x

\* while new_x > 0 && is_word(chars[new_x - 1]) { new_x -= 1 }
RECURSIVE SkipBackWord(_, _)
SkipBackWord(chars, new_x) ==
    IF new_x > 0 /\ IsWordChar(chars[new_x])
        THEN SkipBackWord(chars, new_x - 1)
        ELSE new_x

\* move_cursor_word going on to the next line from the end of a line
move_cursor_word_wrapping(e, direction) ==
    LET x == e.cursor_position[1]
        y == e.cursor_position[2]
        line_count == Measure(e.buffer)
        line_start == offset_of_line(e.buffer, y)
        line_end == offset_of_line(e.buffer, y + 1)
        chars == TrimEnd(Slice(e.buffer, line_start, line_end))
        fwd == SkipForward(chars,
                           IF IsWordChar(chars[x + 1]) THEN SkipForward(chars, x, TRUE) ELSE x,
                           FALSE)
        back == SkipBackWord(chars, SkipBackNonWord(chars, x - 1))
    IN  IF direction = 0 THEN e
        ELSE IF line_count = 0 THEN e
        ELSE IF y >= line_count THEN e
        ELSE IF chars = <<>> THEN e
        ELSE IF x >= Len(chars) THEN e
        ELSE IF direction > 0
            THEN update_viewport([e EXCEPT !.cursor_position =
                                     IF fwd = Len(chars) /\ y + 1 < line_count
                                         THEN <<0, y + 1>> ELSE <<U16(fwd), y>>])
        ELSE IF x = 0 THEN e
        ELSE update_viewport([e EXCEPT !.cursor_position = <<U16(back), y>>])

move_cursor_word(e, direction) ==
    LET x == e.cursor_position[1]
        y == e.cursor_position[2]
        line_count == Measure(e.buffer)
        line_start == offset_of_line(e.buffer, y)
        line_end == offset_of_line(e.buffer, y + 1)
        chars == TrimEnd(Slice(e.buffer, line_start, line_end))
        fwd == SkipForward(chars,
                           IF IsWordChar(chars[x + 1]) THEN SkipForward(chars, x, TRUE) ELSE x,
                           FALSE)
        back == SkipBackWord(chars, SkipBackNonWord(chars, x - 1))
    IN  IF direction = 0 THEN e
        ELSE IF line_count = 0 THEN e
        ELSE IF y >= line_count THEN e
        ELSE IF chars = <<>> THEN e
        ELSE IF x >= Len(chars) THEN e
        ELSE IF direction > 0
            THEN update_viewport([e EXCEPT !.cursor_position = <<U16(fwd), y>>])
        ELSE IF x = 0 THEN e
        ELSE update_viewport([e EXCEPT !.cursor_position = <<U16(back), y>>])

----------------------------------------------------------------------------
(* Key events and actions *)

\* EditorAction; None is Option::None
Act(tag, arg) == [tag |-> tag, arg |-> arg]
None == Act("None", <<>>)

Mods == {"NONE", "SHIFT", "CONTROL"}
\* the characters the Normal-mode table names, and the typed ones
KeyChars == {"c", "q", "w", "i", ":", "k", "j", "h", "l", "b", "0", "$"} \cup TypedChars
OtherCodes == {"Esc", "Backspace", "Tab", "Up", "Down", "Left", "Right", "Home", "End",
               "PageUp", "PageDown", "Enter", "Delete"}
AllKeys ==
    {[code |-> "Char", ch |-> c, mods |-> m] : c \in KeyChars, m \in Mods}
    \cup {[code |-> k, ch |-> "", mods |-> m] : k \in OtherCodes, m \in Mods}
\* the key events delivered: every unmodified key, and with Shift or Control
\* the keys some arm of the two tables tells apart by their modifiers
Keys ==
    {key \in AllKeys :
        \/ key.mods = "NONE"
        \/ key.mods = "SHIFT" /\ (key.ch \in TypedChars \/ key.code \in {"Esc", "Tab"})
        \/ key.mods = "CONTROL" /\ (key.ch \in {"c", "w", "b", "a"}
                                      \/ key.code \in {"Backspace", "Up"})}

IsChar(key, c, m) == key.code = "Char" /\ key.ch = c /\ key.mods = m
IsCode(key, k, m) == key.code = k /\ key.mods = m

\* handle_key_event with Delete mapped to DeleteChar as well
handle_key_event_delete(key) ==
    IF IsChar(key, "c", "CONTROL") THEN Act("Exit", <<>>)
    ELSE IF IsChar(key, "q", "NONE") THEN Act("Exit", <<>>)
    ELSE IF IsChar(key, "w", "NONE") THEN Act("Save", <<>>)
    ELSE IF IsChar(key, "i", "NONE") THEN Act("ChangeMode", <<TRUE>>)
    ELSE IF IsCode(key, "Esc", "NONE") THEN Act("ChangeMode", <<FALSE>>)
    ELSE IF IsChar(key, ":", "NONE") THEN Act("StartCommand", <<>>)
    ELSE IF IsCode(key, "Up", "NONE") \/ IsChar(key, "k", "NONE")
        THEN Act("MoveCursor", <<0, -1>>)
    ELSE IF IsCode(key, "Down", "NONE") \/ IsChar(key, "j", "NONE")
        THEN Act("MoveCursor", <<0, 1>>)
    ELSE IF IsCode(key, "Left", "NONE") \/ IsChar(key, "h", "NONE")
        THEN Act("MoveCursor", <<-1, 0>>)
    ELSE IF IsCode(key, "Right", "NONE") \/ IsChar(key, "l", "NONE")
        THEN Act("MoveCursor", <<1, 0>>)
    ELSE IF IsChar(key, "w", "CONTROL") THEN Act("MoveWord", <<1>>)
    ELSE IF IsChar(key, "b", "CONTROL") THEN Act("MoveWord", <<-1>>)
    ELSE IF IsCode(key, "Home", "NONE") \/ IsChar(key, "0", "NONE")
        THEN Act("LineStart", <<>>)
    ELSE IF IsCode(key, "End", "NONE") \/ IsChar(key, "$", "NONE")
        THEN Act("LineEnd", <<>>)
    ELSE IF IsCode(key, "PageUp", "NONE") THEN Act("PageUp", <<>>)
    ELSE IF IsCode(key, "PageDown", "NONE") THEN Act("PageDown", <<>>)
    ELSE IF key.code = "Char" /\ key.mods \in {"NONE", "SHIFT"}
        THEN Act("InsertChar", <<key.ch>>)
    ELSE IF IsCode(key, "Tab", "NONE") THEN Act("Tab", <<>>)
    ELSE IF IsCode(key, "Enter", "NONE") THEN Act("InsertChar", <<NL>>)
    ELSE IF IsCode(key, "Backspace", "NONE") THEN Act("DeleteChar", <<>>)
    ELSE IF IsCode(key, "Delete", "NONE") THEN Act("DeleteChar", <<>>)
    ELSE None

\* input.rs: the first arm that matches
handle_key_event(key) ==
    IF IsChar(key, "c", "CONTROL") THEN Act("Exit", <<>>)
    ELSE IF IsChar(key, "q", "NONE") THEN Act("Exit", <<>>)
    ELSE IF IsChar(key, "w", "NONE") THEN Act("Save", <<>>)
    ELSE IF IsChar(key, "i", "NONE") THEN Act("ChangeMode", <<TRUE>>)
    ELSE IF IsCode(key, "Esc", "NONE") THEN Act("ChangeMode", <<FALSE>>)
    ELSE IF IsChar(key, ":", "NONE") THEN Act("StartCommand", <<>>)
    ELSE IF IsCode(key, "Up", "NONE") \/ IsChar(key, "k", "NONE")
        THEN Act("MoveCursor", <<0, -1>>)
    ELSE IF IsCode(key, "Down", "NONE") \/ IsChar(key, "j", "NONE")
        THEN Act("MoveCursor", <<0, 1>>)
    ELSE IF IsCode(key, "Left", "NONE") \/ IsChar(key, "h", "NONE")
        THEN Act("MoveCursor", <<-1, 0>>)
    ELSE IF IsCode(key, "Right", "NONE") \/ IsChar(key, "l", "NONE")
        THEN Act("MoveCursor", <<1, 0>>)
    ELSE IF IsChar(key, "w", "CONTROL") THEN Act("MoveWord", <<1>>)
    ELSE IF IsChar(key, "b", "CONTROL") THEN Act("MoveWord", <<-1>>)
    ELSE IF IsCode(key, "Home", "NONE") \/ IsChar(key, "0", "NONE")
        THEN Act("LineStart", <<>>)
    ELSE IF IsCode(key, "End", "NONE") \/ IsChar(key, "$", "NONE")
        THEN Act("LineEnd", <<>>)
    ELSE IF IsCode(key, "PageUp", "NONE") THEN Act("PageUp", <<>>)
    ELSE IF IsCode(key, "PageDown", "NONE") THEN Act("PageDown", <<>>)
    ELSE IF key.code = "Char" /\ key.mods \in {"NONE", "SHIFT"}
        THEN Act("InsertChar", <<key.ch>>)
    ELSE IF IsCode(key, "Tab", "NONE") THEN Act("Tab", <<>>)
    ELSE IF IsCode(key, "Enter", "NONE") THEN Act("InsertChar", <<NL>>)
    ELSE IF IsCode(key, "Backspace", "NONE") THEN Act("DeleteChar", <<>>)
    ELSE None

\* what a handler hands back: the editor, the returned action, and the method
\* it ran with its arguments
Out(e, ret, op, arg) == [ed |-> e, ret |-> ret, op |-> op, arg |-> arg]

\* handle_action with InsertChar taking effect in every mode
handle_action_any_mode(e, action, build, write_ok) ==
    IF action.tag = "ChangeMode"
        THEN Out(change_mode(e, action.arg[1]), action, "change_mode", action.arg)
    ELSE IF action.tag = "MoveCursor"
        THEN Out(move_cursor(e, action.arg, build), None, "move_cursor", action.arg)
    ELSE IF action.tag = "MoveWord"
        THEN Out(move_cursor_word(e, action.arg[1]), None, "move_cursor_word", action.arg)
    ELSE IF action.tag = "LineStart" THEN Out(go_to_line_start(e), None, "go_to_line_start", <<>>)
    ELSE IF action.tag = "LineEnd" THEN Out(go_to_line_end(e), None, "go_to_line_end", <<>>)
    ELSE IF action.tag = "PageUp" THEN Out(page_up(e), None, "page_up", <<>>)
    ELSE IF action.tag = "PageDown" THEN Out(page_down(e, build), None, "page_down", <<>>)
    ELSE IF action.tag = "InsertChar"
        THEN Out(insert_char(e, action.arg[1]), None, "insert_char", action.arg)
    ELSE IF action.tag = "DeleteChar" THEN Out(delete_char(e), None, "delete_char", <<>>)
    ELSE IF action.tag = "Save"
        THEN Out(save(e, write_ok), None, IF save_ok(e, write_ok) THEN "save" ELSE "save_failed", <<>>)
    ELSE IF action.tag = "SaveExit"
        THEN IF save_ok(e, write_ok)
                 THEN Out(save(e, write_ok), Act("Exit", <<>>), "save", <<>>)
                 ELSE Out(e, None, "save_failed", <<>>)
    ELSE IF action.tag = "StartCommand"
        THEN Out([e EXCEPT !.mode = "Command"], action, "start_command", <<>>)
    ELSE Out(e, action, "passthrough", <<>>)

\* handle_action handing the MoveCursor action back, as Insert mode does
handle_action_echo(e, action, build, write_ok) ==
    IF action.tag = "ChangeMode"
        THEN Out(change_mode(e, action.arg[1]), action, "change_mode", action.arg)
    ELSE IF action.tag = "MoveCursor"
        THEN Out(move_cursor(e, action.arg, build), action, "move_cursor", action.arg)
    ELSE IF action.tag = "MoveWord"
        THEN Out(move_cursor_word(e, action.arg[1]), None, "move_cursor_word", action.arg)
    ELSE IF action.tag = "LineStart" THEN Out(go_to_line_start(e), None, "go_to_line_start", <<>>)
    ELSE IF action.tag = "LineEnd" THEN Out(go_to_line_end(e), None, "go_to_line_end", <<>>)
    ELSE IF action.tag = "PageUp" THEN Out(page_up(e), None, "page_up", <<>>)
    ELSE IF action.tag = "PageDown" THEN Out(page_down(e, build), None, "page_down", <<>>)
    ELSE IF action.tag = "InsertChar"
        THEN IF e.mode = "Insert"
                 THEN Out(insert_char(e, action.arg[1]), None, "insert_char", action.arg)
                 ELSE Out(e, None, "insert_ignored", action.arg)
    ELSE IF action.tag = "DeleteChar" THEN Out(delete_char(e), None, "delete_char", <<>>)
    ELSE IF action.tag = "Save"
        THEN Out(save(e, write_ok), None, IF save_ok(e, write_ok) THEN "save" ELSE "save_failed", <<>>)
    ELSE IF action.tag = "SaveExit"
        THEN IF save_ok(e, write_ok)
                 THEN Out(save(e, write_ok), Act("Exit", <<>>), "save", <<>>)
                 ELSE Out(e, None, "save_failed", <<>>)
    ELSE IF action.tag = "StartCommand"
        THEN Out([e EXCEPT !.mode = "Command"], action, "start_command", <<>>)
    ELSE Out(e, action, "passthrough", <<>>)

handle_action(e, action, build, write_ok) ==
    IF action.tag = "ChangeMode"
        THEN Out(change_mode(e, action.arg[1]), action, "change_mode", action.arg)
    ELSE IF action.tag = "MoveCursor"
        THEN Out(move_cursor(e, action.arg, build), None, "move_cursor", action.arg)
    ELSE IF action.tag = "MoveWord"
        THEN Out(move_cursor_word(e, action.arg[1]), None, "move_cursor_word", action.arg)
    ELSE IF action.tag = "LineStart" THEN Out(go_to_line_start(e), None, "go_to_line_start", <<>>)
    ELSE IF action.tag = "LineEnd" THEN Out(go_to_line_end(e), None, "go_to_line_end", <<>>)
    ELSE IF action.tag = "PageUp" THEN Out(page_up(e), None, "page_up", <<>>)
    ELSE IF action.tag = "PageDown" THEN Out(page_down(e, build), None, "page_down", <<>>)
    ELSE IF action.tag = "InsertChar"
        THEN IF e.mode = "Insert"
                 THEN Out(insert_char(e, action.arg[1]), None, "insert_char", action.arg)
                 ELSE Out(e, None, "insert_ignored", action.arg)
    ELSE IF action.tag = "DeleteChar" THEN Out(delete_char(e), None, "delete_char", <<>>)
    ELSE IF action.tag = "Save"
        THEN Out(save(e, write_ok), None, IF save_ok(e, write_ok) THEN "save" ELSE "save_failed", <<>>)
    ELSE IF action.tag = "SaveExit"
        THEN IF save_ok(e, write_ok)
                 THEN Out(save(e, write_ok), Act("Exit", <<>>), "save", <<>>)
                 ELSE Out(e, None, "save_failed", <<>>)
    ELSE IF action.tag = "StartCommand"
        THEN Out([e EXCEPT !.mode = "Command"], action, "start_command", <<>>)
    ELSE Out(e, action, "passthrough", <<>>)

\* handle_input inserting a character key whatever its modifiers
handle_input_any_modifier(e, key, build, write_ok) ==
    IF e.mode \in {"Normal", "Command"}
        THEN IF handle_key_event(key) # None
                 THEN handle_action(e, handle_key_event(key), build, write_ok)
                 ELSE Out(e, None, "ignored", <<>>)
    ELSE IF key.code = "Esc"
        THEN Out([e EXCEPT !.mode = "Normal"], Act("ChangeMode", <<FALSE>>), "escape", <<>>)
    ELSE IF key.code = "Backspace"
        THEN Out(delete_char(e), Act("Backspace", <<>>), "delete_char", <<>>)
    ELSE IF key.code = "Char"
        THEN Out(insert_char(e, key.ch), Act("InsertChar", <<key.ch>>), "insert_char", <<key.ch>>)
    ELSE IF IsCode(key, "Tab", "NONE")
        THEN Out(insert_tab(e), Act("Tab", <<>>), "insert_tab", <<>>)
    ELSE IF IsCode(key, "Up", "NONE")
        THEN Out(move_cursor(e, <<0, -1>>, build), Act("MoveCursor", <<0, -1>>), "move_cursor", <<0, -1>>)
    ELSE IF IsCode(key, "Down", "NONE")
        THEN Out(move_cursor(e, <<0, 1>>, build), Act("MoveCursor", <<0, 1>>), "move_cursor", <<0, 1>>)
    ELSE IF IsCode(key, "Left", "NONE")
        THEN Out(move_cursor(e, <<-1, 0>>, build), Act("MoveCursor", <<-1, 0>>), "move_cursor", <<-1, 0>>)
    ELSE IF IsCode(key, "Right", "NONE")
        THEN Out(move_cursor(e, <<1, 0>>, build), Act("MoveCursor", <<1, 0>>), "move_cursor", <<1, 0>>)
    ELSE Out(e, None, "ignored", <<>>)

\* handle_input with Enter breaking the line in Insert mode
handle_input_enter(e, key, build, write_ok) ==
    IF e.mode \in {"Normal", "Command"}
        THEN IF handle_key_event(key) # None
                 THEN handle_action(e, handle_key_event(key), build, write_ok)
                 ELSE Out(e, None, "ignored", <<>>)
    ELSE IF key.code = "Esc"
        THEN Out([e EXCEPT !.mode = "Normal"], Act("ChangeMode", <<FALSE>>), "escape", <<>>)
    ELSE IF key.code = "Backspace"
        THEN Out(delete_char(e), Act("Backspace", <<>>), "delete_char", <<>>)
    ELSE IF key.code = "Char" /\ key.mods \in {"NONE", "SHIFT"}
        THEN Out(insert_char(e, key.ch), Act("InsertChar", <<key.ch>>), "insert_char", <<key.ch>>)
    ELSE IF IsCode(key, "Tab", "NONE")
        THEN Out(insert_tab(e), Act("Tab", <<>>), "insert_tab", <<>>)
    ELSE IF IsCode(key, "Up", "NONE")
        THEN Out(move_cursor(e, <<0, -1>>, build), Act("MoveCursor", <<0, -1>>), "move_cursor", <<0, -1>>)
    ELSE IF IsCode(key, "Down", "NONE")
        THEN Out(move_cursor(e, <<0, 1>>, build), Act("MoveCursor", <<0, 1>>), "move_cursor", <<0, 1>>)
    ELSE IF IsCode(key, "Left", "NONE")
        THEN Out(move_cursor(e, <<-1, 0>>, build), Act("MoveCursor", <<-1, 0>>), "move_cursor", <<-1, 0>>)
    ELSE IF IsCode(key, "Right", "NONE")
        THEN Out(move_cursor(e, <<1, 0>>, build), Act("MoveCursor", <<1, 0>>), "move_cursor", <<1, 0>>)
    ELSE IF IsCode(key, "Enter", "NONE")
        THEN Out(insert_char(e, NL), Act("InsertChar", <<NL>>), "insert_char", <<NL>>)
    ELSE Out(e, None, "ignored", <<>>)

handle_input(e, key, build, write_ok) ==
    IF e.mode \in {"Normal", "Command"}
        THEN IF handle_key_event(key) # None
                 THEN handle_action(e, handle_key_event(key), build, write_ok)
                 ELSE Out(e, None, "ignored", <<>>)
    ELSE IF key.code = "Esc"
        THEN Out([e EXCEPT !.mode = "Normal"], Act("ChangeMode", <<FALSE>>), "escape", <<>>)
    ELSE IF key.code = "Backspace"
        THEN Out(delete_char(e), Act("Backspace", <<>>), "delete_char", <<>>)
    ELSE IF key.code = "Char" /\ key.mods \in {"NONE", "SHIFT"}
        THEN Out(insert_char(e, key.ch), Act("InsertChar", <<key.ch>>), "insert_char", <<key.ch>>)
    ELSE IF IsCode(key, "Tab", "NONE")
        THEN Out(insert_tab(e), Act("Tab", <<>>), "insert_tab", <<>>)
    ELSE IF IsCode(key, "Up", "NONE")
        THEN Out(move_cursor(e, <<0, -1>>, build), Act("MoveCursor", <<0, -1>>), "move_cursor", <<0, -1>>)
    ELSE IF IsCode(key, "Down", "NONE")
        THEN Out(move_cursor(e, <<0, 1>>, build), Act("MoveCursor", <<0, 1>>), "move_cursor", <<0, 1>>)
    ELSE IF IsCode(key, "Left", "NONE")
        THEN Out(move_cursor(e, <<-1, 0>>, build), Act("MoveCursor", <<-1, 0>>), "move_cursor", <<-1, 0>>)
    ELSE IF IsCode(key, "Right", "NONE")
        THEN Out(move_cursor(e, <<1, 0>>, build), Act("MoveCursor", <<1, 0>>), "move_cursor", <<1, 0>>)
    ELSE Out(e, None, "ignored", <<>>)

----------------------------------------------------------------------------
(* The editor driven by key events *)

\* every document of at most n characters
Documents(n) == UNION {[1..k -> Chars] : k \in 0..n}

\* CimEditor::new: the file's text, or the empty document without a file.
\* buffer is RopeTextBuffer.rope, a sequence of characters; modified is
\* RopeTextBuffer.modified; file_path is whether CimEditor.file_path is Some;
\* cursor_position is <<column, line>>
New(text, has_path) ==
    [buffer |-> text, modified |-> FALSE, file_path |-> has_path,
     mode |-> "Normal", cursor_position |-> <<0, 0>>,
     scroll_offset |-> 0, horizontal_offset |-> 0,
     viewport_height |-> 0, viewport_width |-> 0,
     text_changed |-> TRUE, panicked |-> FALSE]

\* the history of a step
Did(op, arg, ret) == [op |-> op, arg |-> arg, ret |-> ret]

Init ==
    /\ \E text \in Documents(MaxLen), has_path \in BOOLEAN :
           /\ has_path \/ text = <<>>
           /\ editor = New(text, has_path)
    /\ last = Did("new", <<>>, None)

\* the key events whose handling depends on the build (move_cursor, page_down)
\* and on the outcome of the write (save); for the others one build and one
\* outcome stand for all
UsesBuild(e, key) ==
    \/ e.mode = "Insert" /\ key.code \in {"Up", "Down", "Left", "Right"}
    \/ e.mode # "Insert" /\ handle_key_event(key).tag \in {"MoveCursor", "PageDown"}
UsesWrite(e, key) ==
    e.mode # "Insert" /\ handle_key_event(key).tag \in {"Save", "SaveExit"}

\* one key event through CimEditor::handle_input
HandleInputKey(key, build, write_ok) ==
    LET out == handle_input(editor, key, build, write_ok)
    IN  /\ ~panicked
        /\ (mode = "Insert" /\ key.code = "Char") => key.ch \in TypedChars
        /\ build = "debug" => UsesBuild(editor, key)
        /\ ~write_ok => UsesWrite(editor, key)
        /\ Len(out.ed.buffer) <= MaxLen
        /\ editor' = out.ed
        /\ last' = Did(out.op, out.arg, out.ret)

HandleInput ==
    \E key \in Keys, build \in Builds, write_ok \in BOOLEAN :
        HandleInputKey(key, build, write_ok)

\* ui.rs draw_ui: the highlighting is recomputed when the text changed, and
\* the frame's size is handed over
draw_ui(e, height, width) ==
    [e EXCEPT !.text_changed = FALSE,
              !.viewport_height = height,
              !.viewport_width = width]

\* one frame drawn, of a terminal large enough to leave the text some room
DrawUi ==
    \E height \in 1..MaxView, width \in 1..MaxView :
        /\ ~panicked
        /\ editor' = draw_ui(editor, height, width)
        /\ last' = Did("draw_ui", <<>>, None)

Next == HandleInput \/ DrawUi

Spec == Init /\ [][Next]_vars

----------------------------------------------------------------------------
(* The document as the specification reads it: lines, and valid cursors *)

\* the pieces of s between its newlines ("ab\n" gives <<"ab", "">>)
RECURSIVE Pieces(_)
Pieces(s) ==
    IF s = <<>> THEN << <<>> >>
    ELSE IF Head(s) = NL THEN << <<>> >> \o Pieces(Tail(s))
    ELSE LET rest == Pieces(Tail(s))
         IN  << <<Head(s)>> \o Head(rest) >> \o Tail(rest)

\* the lines of the document, each without its newline: a trailing
\* unterminated line is a line, the empty document has one empty line
DocLines(s) ==
    LET p == Pieces(s)
    IN  IF Len(p) > 1 /\ p[Len(p)] = <<>> THEN SubSeq(p, 1, Len(p) - 1) ELSE p

DocLineCount(s) == Len(DocLines(s))

\* the length of line y (0-based), without its newline
LineLength(s, y) == Len(DocLines(s)[y + 1])

\* the largest column the cursor may rest on in line y: on the last character
\* in Normal mode, after it in Insert mode and on an empty line
MaxColumn(s, m, y) ==
    IF m = "Normal" /\ LineLength(s, y) > 0 THEN LineLength(s, y) - 1 ELSE LineLength(s, y)

\* a cursor position that is valid for the document and the mode
ValidCursor(s, m, pos) ==
    /\ pos[2] < DocLineCount(s)
    /\ pos[1] <= MaxColumn(s, m, pos[2])

\* the lines put together again, every line but the last with its newline
RECURSIVE JoinLines(_)
JoinLines(ls) ==
    IF Len(ls) = 1 THEN ls[1] ELSE ls[1] \o <<NL>> \o JoinLines(Tail(ls))

\* the document ends in a newline
Terminated(s) == s # <<>> /\ s[Len(s)] = NL

Clamp(v, lo, hi) == Max(lo, Min(v, hi))

\* the document with c put at column x of line y
InsertInLine(s, x, y, c) ==
    LET ls == DocLines(s)
        new == [ls EXCEPT ![y + 1] = SubSeq(@, 1, x) \o <<c>> \o SubSeq(@, x + 1, Len(@))]
    IN  JoinLines(new) \o (IF Terminated(s) THEN <<NL>> ELSE <<>>)

\* the document without the character at column x of line y
DeleteInLine(s, x, y) ==
    LET ls == DocLines(s)
        new == [ls EXCEPT ![y + 1] = SubSeq(@, 1, x) \o SubSeq(@, x + 2, Len(@))]
    IN  JoinLines(new) \o (IF Terminated(s) THEN <<NL>> ELSE <<>>)

----------------------------------------------------------------------------
(* A method applied to an editor value its caller built.  CimEditor's fields
   are public: the caller sets the document, the mode and the cursor. *)

\* the editor on a document, in a mode, with the cursor at a position
Built(text, m, pos) ==
    [New(text, TRUE) EXCEPT !.mode = m, !.cursor_position = pos]

\* every document, every mode, and every cursor valid for them, before and
\* after the frame that clears text_changed was drawn
MethodInit ==
    /\ \E text \in Documents(MaxLen), m \in Modes,
          x \in 0..MaxLen, y \in 0..MaxLen, changed \in BOOLEAN :
           /\ ValidCursor(text, m, <<x, y>>)
           /\ editor = [Built(text, m, <<x, y>>) EXCEPT !.text_changed = changed]
    /\ last = Did("new", <<>>, None)

\* CimEditor::insert_char called with any character, the newline included
MethodInsertChar ==
    \E c \in Chars :
        /\ ~panicked
        /\ Len(buffer) < MaxLen
        /\ editor' = insert_char(editor, c)
        /\ last' = Did("insert_char", <<c>>, None)

\* CimEditor::delete_char
MethodDeleteChar ==
    /\ ~panicked
    /\ editor' = delete_char(editor)
    /\ last' = Did("delete_char", <<>>, None)

\* RopeTextBuffer::insert_char at any byte offset
MethodBufferInsertChar ==
    \E pos \in 0..(ByteLen(buffer) + 1), c \in Chars :
        /\ ~panicked
        /\ Len(buffer) < MaxLen
        /\ editor' = buffer_insert_char(editor, pos, c)
        /\ last' = Did("buffer_insert_char", <<pos, c>>, None)

\* RopeTextBuffer::remove_char at any byte offset
MethodBufferRemoveChar ==
    \E pos \in 0..(ByteLen(buffer) + 1) :
        /\ ~panicked
        /\ editor' = buffer_remove_char(editor, pos)
        /\ last' = Did("buffer_remove_char", <<pos>>, None)

MethodNext ==
    \/ MethodInsertChar
    \/ MethodDeleteChar
    \/ MethodBufferInsertChar
    \/ MethodBufferRemoveChar

SpecMethod == MethodInit /\ [][MethodNext]_vars

----------------------------------------------------------------------------
(* normalize_cursor applied to any editor value: any cursor, in or out of the
   document, and any offsets and viewport.  Short documents of every shape,
   tall ones (only newlines) that scroll vertically under a margin, wide ones
   (one long line) that scroll horizontally under a margin. *)

\* n times the character c
Run(c, n) == [i \in 1..n |-> c]

\* viewport sizes: none, one cell, and the smallest with a margin of 1 and of 2
ViewSizes == {0, 1, 4, 8}

\* the editor value with every field normalize_cursor reads
Given(text, m, pos, so, ho, vh, vw) ==
    [Built(text, m, pos) EXCEPT !.scroll_offset = so, !.horizontal_offset = ho,
                                !.viewport_height = vh, !.viewport_width = vw]

ShortInputs ==
    \E text \in Documents(MaxLen), m \in Modes,
       x \in 0..(MaxLen + 1), y \in 0..(MaxLen + 1),
       so \in 0..MaxOffset, ho \in 0..MaxOffset,
       vh \in ViewSizes, vw \in ViewSizes :
        editor = Given(text, m, <<x, y>>, so, ho, vh, vw)

TallInputs ==
    \E n \in (MaxLen + 1)..MaxTall, m \in Modes,
       x \in {0, 1}, y \in 0..(MaxTall + 1),
       so \in 0..MaxTall, vh \in ViewSizes :
        editor = Given(Run(NL, n), m, <<x, y>>, so, 0, vh, 1)

WideInputs ==
    \E n \in MaxLen..MaxWide, m \in Modes,
       x \in 0..(MaxWide + 1), y \in {0, 1},
       ho \in 0..MaxWide, vw \in ViewSizes :
        editor = Given(Run("a", n) \o <<NL>>, m, <<x, y>>, 0, ho, 1, vw)

NormalizeInit ==
    /\ ShortInputs \/ TallInputs \/ WideInputs
    /\ last = Did("new", <<>>, None)

\* CimEditor::normalize_cursor; the history keeps the cursor it was given
NormalizeStep ==
    /\ editor' = normalize_cursor(editor)
    /\ last' = Did("normalize_cursor", cursor_position, None)

NormalizeNext == NormalizeStep

SpecNormalize == NormalizeInit /\ [][NormalizeNext]_vars

----------------------------------------------------------------------------
(* update_viewport applied to any editor value: the inputs of
   normalize_cursor, and the cursor not clamped before the call. *)

\* CimEditor::update_viewport; the history keeps the offsets it was given
ViewportStep ==
    /\ editor' = update_viewport(editor)
    /\ last' = Did("update_viewport", <<scroll_offset, horizontal_offset>>, None)

ViewportNext == ViewportStep

SpecViewport == NormalizeInit /\ [][ViewportNext]_vars

----------------------------------------------------------------------------
(* The editor driven by key events in a viewport of a fixed size: the first
   frame has been drawn, and the terminal is not resized afterwards. *)

\* the documents scrolled: plain characters and newlines
ScrollDocuments == {text \in Documents(MaxLen) : \A i \in 1..Len(text) : text[i] # Wide}

\* the keys delivered, those typing a plain character
ScrollKeys == {key \in Keys : key.ch # Wide}

ScrollInit ==
    /\ \E text \in ScrollDocuments, height \in 0..MaxScroll :
           editor = draw_ui(New(text, TRUE), height, 1)
    /\ last = Did("draw_ui", <<>>, None)

ScrollNext ==
    \E key \in ScrollKeys, build \in Builds, write_ok \in BOOLEAN :
        HandleInputKey(key, build, write_ok)

SpecScroll == ScrollInit /\ [][ScrollNext]_vars

----------------------------------------------------------------------------
(* move_cursor_word applied to an editor on one line of words: the line of
   the specification's example, and every short line of word and non-word
   characters; the line is first or second, followed by another line or
   not, and the document ends with a newline or not. *)

Example == <<"f", "o", "o", " ", " ", "b", "a", "r", "_", "b", "a", "z", " ", "=", " ", "1">>

WordLines == UNION {[1..k -> {"a", "_", Wide}] : k \in 0..MaxWord} \cup {Example}

WordInit ==
    /\ \E line \in WordLines, first \in BOOLEAN, followed \in BOOLEAN,
          terminated \in BOOLEAN, m \in Modes, x \in 0..Len(Example) :
           LET text == (IF first THEN <<>> ELSE <<NL>>) \o line
                       \o (IF followed THEN <<NL, "a">> ELSE <<>>)
                       \o (IF terminated THEN <<NL>> ELSE <<>>)
               pos == <<x, IF first THEN 0 ELSE 1>>
           IN  /\ ValidCursor(text, m, pos)
               /\ editor = Built(text, m, pos)
    /\ last = Did("new", <<>>, None)

\* CimEditor::move_cursor_word
WordStep ==
    \E direction \in {-1, 0, 1} :
        /\ editor' = move_cursor_word(editor, direction)
        /\ last' = Did("move_cursor_word", <<direction>>, None)

WordNext == WordStep

SpecWord == WordInit /\ [][WordNext]_vars

----------------------------------------------------------------------------
(* Actions and frames: handle_action applied to every EditorAction, the frames
   drawn in between, and the highlighted view the frames render *)

\* syntect's LinesWithEndings: the lines of s, each with its newline
RECURSIVE LinesWithEndings(_)
LinesWithEndings(s) ==
    IF s = <<>> THEN <<>>
    ELSE LET ends == {i \in 1..Len(s) : s[i] = NL}
             k == IF ends = {} THEN Len(s)
                  ELSE CHOOSE i \in ends : \A o \in ends : i <= o
         IN  <<SubSeq(s, 1, k)>> \o LinesWithEndings(SubSeq(s, k + 1, Len(s)))

\* Highlighter::highlight: one entry per line, holding the line's text (the
\* styles are left out); a single empty entry for the empty rope
highlight(rope) ==
    IF LinesWithEndings(rope) = <<>> THEN << <<>> >> ELSE LinesWithEndings(rope)

\* CimEditor::new with its highlighted_lines field
NewHighlighted(text, has_path) ==
    [highlighted_lines |-> highlight(text)] @@ New(text, has_path)

\* draw_ui with the highlighting it recomputes when text_changed is set
draw_ui_highlighted(e, height, width) ==
    [draw_ui(e, height, width)
        EXCEPT !.highlighted_lines = IF e.text_changed THEN highlight(e.buffer) ELSE @]

\* the values of EditorAction
Directions == {<<0, -1>>, <<0, 1>>, <<-1, 0>>, <<1, 0>>}
Actions ==
    {Act("ChangeMode", <<b>>) : b \in BOOLEAN}
    \cup {Act("MoveCursor", d) : d \in Directions}
    \cup {Act("MoveWord", <<d>>) : d \in {-1, 1}}
    \cup {Act(t, <<>>) : t \in {"LineStart", "LineEnd", "PageUp", "PageDown", "DeleteChar",
                                "Save", "SaveExit", "StartCommand", "Exit", "Tab",
                                "Backspace"}}
    \cup {Act("InsertChar", <<c>>) : c \in Chars}

MovementTags == {"MoveCursor", "MoveWord", "LineStart", "LineEnd", "PageUp", "PageDown"}

ActionInit ==
    /\ \E text \in Documents(MaxDoc), has_path \in BOOLEAN :
           /\ has_path \/ text = <<>>
           /\ editor = NewHighlighted(text, has_path)
    /\ last = Did("new", <<>>, None)

\* CimEditor::handle_action on one action; the history keeps the action and
\* whether the write went through
ActionStep ==
    \E action \in Actions, build \in Builds, write_ok \in BOOLEAN :
        LET out == handle_action(editor, action, build, write_ok)
        IN  /\ ~panicked
            /\ last.ret # Act("Exit", <<>>)
            /\ build = "debug" => action.tag \in {"MoveCursor", "PageDown"}
            /\ ~write_ok => action.tag \in {"Save", "SaveExit"}
            /\ Len(out.ed.buffer) <= MaxDoc
            /\ editor' = out.ed
            /\ last' = Did(out.op, <<action, write_ok>>, out.ret)

\* one frame drawn
ActionDraw ==
    \E height \in 1..MaxView, width \in 1..MaxView :
        /\ ~panicked
        /\ last.ret # Act("Exit", <<>>)
        /\ editor' = draw_ui_highlighted(editor, height, width)
        /\ last' = Did("draw_ui", <<>>, None)

ActionNext == ActionStep \/ ActionDraw

SpecAction == ActionInit /\ [][ActionNext]_vars

----------------------------------------------------------------------------
(* Insert mode: key events of every kind, with every modifier, through
   handle_input *)

KeysInit ==
    /\ \E text \in Documents(MaxLen), x \in 0..MaxLen, y \in 0..MaxLen :
           /\ ValidCursor(text, "Insert", <<x, y>>)
           /\ editor = Built(text, "Insert", <<x, y>>)
    /\ last = Did("new", <<>>, None)

\* CimEditor::handle_input on one key event in Insert mode; the history
\* keeps the key
KeysStep ==
    \E key \in AllKeys, build \in Builds :
        LET out == handle_input(editor, key, build, TRUE)
        IN  /\ ~panicked
            /\ mode = "Insert"
            /\ (mode = "Insert" /\ key.code = "Char") => key.ch \in TypedChars
            /\ build = "debug" => UsesBuild(editor, key)
            /\ Len(out.ed.buffer) <= MaxLen
            /\ editor' = out.ed
            /\ last' = Did(out.op, <<key>>, out.ret)

KeysNext == KeysStep

SpecKeys == KeysInit /\ [][KeysNext]_vars

----------------------------------------------------------------------------
(* Normal and Command mode: key events of every kind, with every modifier,
   through handle_input *)

NormalKeysInit ==
    /\ \E text \in Documents(MaxDoc), m \in {"Normal", "Command"},
          x \in 0..MaxDoc, y \in 0..MaxDoc :
           /\ ValidCursor(text, m, <<x, y>>)
           /\ editor = Built(text, m, <<x, y>>)
    /\ last = Did("new", <<>>, None)

\* CimEditor::handle_input on one key event in Normal or Command mode; the
\* history keeps the key
NormalKeysStep ==
    \E key \in AllKeys, build \in Builds, write_ok \in BOOLEAN :
        LET out == handle_input(editor, key, build, write_ok)
        IN  /\ ~panicked
            /\ mode \in {"Normal", "Command"}
            /\ build = "debug" => UsesBuild(editor, key)
            /\ ~write_ok => UsesWrite(editor, key)
            /\ editor' = out.ed
            /\ last' = Did(out.op, <<key>>, out.ret)

NormalKeysNext == NormalKeysStep

SpecNormalKeys == NormalKeysInit /\ [][NormalKeysNext]_vars

----------------------------------------------------------------------------
(* Esc among the keys that change the mode, the buffer and the cursor line *)

EscKeys ==
    {[code |-> "Esc", ch |-> "", mods |-> m] : m \in Mods}
    \cup {[code |-> "Char", ch |-> c, mods |-> "NONE"] : c \in {"i", ":", "a"}}
    \cup {[code |-> k, ch |-> "", mods |-> "NONE"] : k \in {"Backspace", "Up", "Down"}}

EscInit ==
    /\ \E text \in Documents(MaxDoc), m \in Modes,
          x \in 0..MaxDoc, y \in 0..MaxDoc :
           /\ ValidCursor(text, m, <<x, y>>)
           /\ editor = Built(text, m, <<x, y>>)
    /\ last = Did("new", <<>>, None)

\* CimEditor::handle_input on one of these keys, in any mode; the history
\* keeps the key
EscStep ==
    \E key \in EscKeys, build \in Builds :
        LET out == handle_input(editor, key, build, TRUE)
        IN  /\ ~panicked
            /\ build = "debug" => UsesBuild(editor, key)
            /\ Len(out.ed.buffer) <= MaxLen
            /\ editor' = out.ed
            /\ last' = Did(out.op, <<key>>, out.ret)

EscNext == EscStep

SpecEsc == EscInit /\ [][EscNext]_vars

----------------
(* Typing into a new, empty buffer: character keys through handle_input in
   Insert mode, the history keeping the characters typed so far *)

\* the most characters typed
MaxTyped == 4

\* the characters typed: letters and a two-byte character
TypedSet == {"a", "b", Wide}

\* the empty buffer of CimEditor::new, Insert mode entered
TypingInit ==
    /\ editor = Built(<<>>, "Insert", <<0, 0>>)
    /\ last = Did("typed", <<>>, None)

\* one character key, unmodified or with Shift, through handle_input (whose
\* Insert-mode arm for characters runs the same code in either build)
TypingStep ==
    \E c \in TypedSet, m \in {"NONE", "SHIFT"} :
        LET out == handle_input(editor, [code |-> "Char", ch |-> c, mods |-> m],
                                "release", TRUE)
        IN  /\ ~panicked
            /\ Len(last.arg) < MaxTyped
            /\ editor' = out.ed
            /\ last' = Did("typed", Append(last.arg, c), out.ret)

TypingNext == TypingStep

SpecTyping == TypingInit /\ [][TypingNext]_vars

----------------------------------------------------------------------------
(* A terminal that changes its size: frames of several heights drawn between
   the key events that move the cursor through a tall document *)

\* the heights the frames hand over, each with a margin of its own
ResizeHeights == {4, 8}

\* the keys that move the cursor by lines and pages
ResizeKeys ==
    {key \in Keys : handle_key_event(key).tag \in {"MoveCursor", "PageUp", "PageDown"}}

\* a file of 1..MaxTall empty lines, each terminated, and its first frame
ResizeInit ==
    \E n \in 1..MaxTall, height \in ResizeHeights :
        /\ editor = draw_ui(New(Run(NL, n), TRUE), height, 1)
        /\ last = Did("draw_ui", <<height>>, None)

\* one key event through CimEditor::handle_input
ResizeKey ==
    \E key \in ResizeKeys, build \in Builds :
        LET out == handle_input(editor, key, build, TRUE)
        IN  /\ ~panicked
            /\ editor' = out.ed
            /\ last' = Did(out.op, out.arg, out.ret)

\* one frame drawn at some height
ResizeDraw ==
    \E height \in ResizeHeights :
        /\ ~panicked
        /\ editor' = draw_ui(editor, height, 1)
        /\ last' = Did("draw_ui", <<height>>, None)

ResizeNext == ResizeKey \/ ResizeDraw

SpecResize == ResizeInit /\ [][ResizeNext]_vars

----------------------------------------------------------------------------
(* main.rs: CimApp, the application of the binary's own source file *)

\* Option<KeyEvent>::None
NoKey == [code |-> "None", ch |-> "", mods |-> "NONE"]

\* the text CimApp::new falls back to
CouldNotOpen ==
    <<"C", "o", "u", "l", "d", " ", "n", "o", "t", " ", "o", "p", "e", "n", " ",
      "f", "i", "l", "e", ".">>

\* CimApp::new on the text it read (or fell back to). string and rope are
\* RopeTextBuffer.string and .rope, modified is RopeTextBuffer.modified;
\* file_path is whether CimApp.file_path is Some; disk is the content of the
\* file at that path; exited is set when run_app has returned
AppBuilt(text, has_path) ==
    [string |-> text, rope |-> text, modified |-> FALSE, file_path |-> has_path,
     insert_mode |-> FALSE, command_buffer |-> <<>>, text_changed |-> TRUE,
     cursor_position |-> <<0, 0>>, scroll_offset |-> 0, horizontal_offset |-> 0,
     viewport_height |-> 0, viewport_width |-> 0, last_key_event |-> NoKey,
     disk |-> text, exited |-> FALSE, panicked |-> FALSE]

\* CimApp::new: the file's text, the fallback text when it cannot be read,
\* the empty rope without a path
AppNew(has_path, read_ok, text) ==
    IF ~has_path THEN AppBuilt(<<>>, FALSE)
    ELSE IF read_ok THEN AppBuilt(text, TRUE)
    ELSE [AppBuilt(CouldNotOpen, TRUE) EXCEPT !.disk = text]

\* CimEditor::new as the Result it returns: read_to_string(path)? hands the
\* error back
TryNew(has_path, read_ok, text) ==
    IF has_path /\ ~read_ok THEN [ok |-> FALSE]
    ELSE [ok |-> TRUE, ed |-> New(IF has_path THEN text ELSE <<>>, has_path)]

\* no editor constructed yet
NoEditor == [constructed |-> FALSE]

\* the process started with or without a path; the file there holds text and
\* can be read or not
StartupInit ==
    /\ editor = NoEditor
    /\ \E has_path \in BOOLEAN, read_ok \in BOOLEAN, text \in Documents(MaxLen) :
           /\ ~has_path => (read_ok /\ text = <<>>)
           /\ last = Did("main", <<has_path, read_ok, text>>, None)

\* CimEditor::new
StartEditor ==
    LET out == TryNew(last.arg[1], last.arg[2], last.arg[3])
    IN  /\ last.op = "main"
        /\ editor' = IF out.ok THEN out.ed ELSE editor
        /\ last' = Did("CimEditor::new", last.arg,
                       IF out.ok THEN Act("Ok", <<>>) ELSE Act("Err", <<>>))

\* CimApp::new
StartApp ==
    /\ last.op = "main"
    /\ editor' = AppNew(last.arg[1], last.arg[2], last.arg[3])
    /\ last' = Did("CimApp::new", last.arg, Act("Ok", <<>>))

StartupNext == StartEditor \/ StartApp

SpecStartup == StartupInit /\ [][StartupNext]_vars

----------------------------------------------------------------------------
(* main.rs: run_app, one key event per turn of its loop. The rope is ropey's:
   its lines are counted with the empty line after a final newline, a line's
   length includes its newline, and its indices are characters; the String
   beside it is indexed in bytes *)

\* ropey Rope::len_lines
len_lines(rope) == Measure(rope) + 1

\* the lines of a ropey Rope, each with its newline
RopeLines(rope) ==
    IF rope = <<>> \/ rope[Len(rope)] = NL
        THEN LinesWithEndings(rope) \o << <<>> >>
        ELSE LinesWithEndings(rope)

\* Rope::line(y), which panics for y >= len_lines
RopeLineOk(rope, y) == y < len_lines(rope)
RopeLine(rope, y) == RopeLines(rope)[y + 1]

\* Rope::line_to_char(y), which panics for y > len_lines
LineToCharOk(rope, y) == y <= len_lines(rope)
RECURSIVE line_to_char(_, _)
line_to_char(rope, y) ==
    IF y <= 0 THEN 0
    ELSE IF y > len_lines(rope) THEN Len(rope)
    ELSE Len(RopeLine(rope, y - 1)) + line_to_char(rope, y - 1)

\* String::insert and insert_str at a byte index: panic off a char boundary
StrInsertOk(str, pos) == IsBoundary(str, pos)
StrInsert(str, pos, new) == Edit(str, pos, pos, new)

\* String::remove at a byte index: panics at the end and off a char boundary
StrRemoveOk(str, pos) == pos < ByteLen(str) /\ IsBoundary(str, pos)
StrRemove(str, pos) ==
    SubSeq(str, 1, CharsBefore(str, pos)) \o SubSeq(str, CharsBefore(str, pos) + 2, Len(str))

\* the assignments that follow every edit of the String
Edited(e, str) == [e EXCEPT !.string = str, !.modified = TRUE, !.text_changed = TRUE]

\* CimApp::move_cursor; `viewport_height - 1` and `line_display_width - 1`
\* are unchecked usize subtractions
app_move_cursor(e, direction, build) ==
    LET x0 == e.cursor_position[1]
        y0 == e.cursor_position[2]
        max_y == U16(SatSub(len_lines(e.rope), 1))
        y == Min(SatAddSigned(y0, direction[2]), max_y)
        line_len == U16(Len(RopeLine(e.rope, y)))
        x == Min(SatAddSigned(x0, direction[1]), line_len)
        scrolls == ~(y < U16(e.scroll_offset))
                   /\ y >= U16(e.scroll_offset + e.viewport_height)
        so == IF y < U16(e.scroll_offset) THEN y
              ELSE IF scrolls THEN SatSub(y, WrapPred(e.viewport_height))
              ELSE e.scroll_offset
        line_display_width == SatSub(e.viewport_width, 5)
        shifts == ~(x < U16(e.horizontal_offset))
                  /\ x >= U16(e.horizontal_offset + line_display_width)
        ho == IF x < U16(e.horizontal_offset) THEN x
              ELSE IF shifts THEN SatSub(x, WrapPred(line_display_width))
              ELSE e.horizontal_offset
    IN  IF build = "debug" /\ scrolls /\ e.viewport_height = 0 THEN Panic(e)
        ELSE IF build = "debug" /\ shifts /\ line_display_width = 0 THEN Panic(e)
        ELSE [e EXCEPT !.cursor_position = <<x, y>>,
                       !.scroll_offset = so,
                       !.horizontal_offset = ho]

\* CimApp::save_file, the rope synchronised first; File::create fails or the
\* rope is written
app_save_ok(e, write_ok) == e.file_path => write_ok
sync_to_rope(e) ==
    IF e.modified THEN [e EXCEPT !.rope = e.string, !.modified = FALSE] ELSE e
save_file(e, write_ok) ==
    IF e.file_path /\ write_ok
        THEN [sync_to_rope(e) EXCEPT !.disk = sync_to_rope(e).rope]
        ELSE sync_to_rope(e)

\* CimApp::is_duplicate_key_event with the modifiers left out
is_duplicate_key_event_any_modifier(e, key) ==
    /\ e.last_key_event # NoKey
    /\ e.last_key_event.code = key.code /\ e.last_key_event.ch = key.ch

\* CimApp::is_duplicate_key_event: the same code (for a character key the
\* same character) and the same modifiers
is_duplicate_key_event(e, key) ==
    /\ e.last_key_event # NoKey
    /\ e.last_key_event.code = key.code /\ e.last_key_event.ch = key.ch
    /\ e.last_key_event.mods = key.mods

\* ui: the derived views brought up to date when text_changed is set, and the
\* viewport taken from the frame's size <<height, width>>
ui(e, size) ==
    [(IF e.text_changed THEN sync_to_rope(e) ELSE e)
        EXCEPT !.text_changed = FALSE,
               !.viewport_height = size[1] - 2,
               !.viewport_width = size[2]]

\* what the match of run_app does with a key: the application and the arm
Arm(e, op) == [ed |-> e, op |-> op]
Exited(e) == [e EXCEPT !.exited = TRUE]

\* the arms of run_app's match that edit the text at the cursor
app_insert(e, new, direction, build, op) ==
    LET x == e.cursor_position[1]
        y == e.cursor_position[2]
        pos == line_to_char(e.rope, y) + x
    IN  IF ~LineToCharOk(e.rope, y) \/ ~StrInsertOk(e.string, pos) THEN Arm(Panic(e), op)
        ELSE Arm(app_move_cursor(Edited(e, StrInsert(e.string, pos, new)), direction, build), op)

app_enter(e) ==
    LET x == e.cursor_position[1]
        y == e.cursor_position[2]
        pos == line_to_char(e.rope, y) + x
    IN  IF ~LineToCharOk(e.rope, y) \/ ~StrInsertOk(e.string, pos) THEN Arm(Panic(e), "enter")
        ELSE Arm([Edited(e, StrInsert(e.string, pos, <<NL>>))
                     EXCEPT !.cursor_position = <<0, U16(y + 1)>>,
                            !.horizontal_offset = 0], "enter")

app_backspace(e, build) ==
    LET x == e.cursor_position[1]
        y == e.cursor_position[2]
        pos == line_to_char(e.rope, y) + x - 1
        prev_line_len == Len(RopeLine(e.rope, y - 1))
        prev_pos == line_to_char(e.rope, y - 1) + prev_line_len
    IN  IF x > 0
            THEN IF ~LineToCharOk(e.rope, y) \/ ~StrRemoveOk(e.string, pos)
                     THEN Arm(Panic(e), "backspace")
                     ELSE Arm(app_move_cursor(Edited(e, StrRemove(e.string, pos)),
                                              <<-1, 0>>, build), "backspace")
        ELSE IF y > 0
            THEN IF ~RopeLineOk(e.rope, y - 1) \/ ~StrRemoveOk(e.string, prev_pos)
                     THEN Arm(Panic(e), "backspace")
                     ELSE Arm([Edited(e, StrRemove(e.string, prev_pos))
                                  EXCEPT !.cursor_position = <<U16(prev_line_len), y - 1>>],
                              "backspace")
        ELSE Arm(e, "backspace")

app_delete(e) ==
    LET x == e.cursor_position[1]
        y == e.cursor_position[2]
        pos == line_to_char(e.rope, y) + x
    IN  IF ~LineToCharOk(e.rope, y) THEN Arm(Panic(e), "delete")
        ELSE IF pos < ByteLen(e.string)
            THEN IF ~StrRemoveOk(e.string, pos) THEN Arm(Panic(e), "delete")
                 ELSE Arm(Edited(e, StrRemove(e.string, pos)), "delete")
        ELSE Arm(e, "delete")

app_end(e) ==
    LET y == e.cursor_position[2]
        line_len == U16(Len(RopeLine(e.rope, y)))
    IN  IF ~RopeLineOk(e.rope, y) THEN Arm(Panic(e), "end")
        ELSE Arm([e EXCEPT !.cursor_position = <<line_len, y>>,
                           !.horizontal_offset =
                               IF line_len > U16(SatSub(e.viewport_width, 5))
                                   THEN SatSub(line_len, U16(e.viewport_width))
                                   ELSE @], "end")

app_scroll_left(e) ==
    LET ho == SatSub(e.horizontal_offset, 10)
    IN  Arm([e EXCEPT !.horizontal_offset = ho,
                      !.cursor_position =
                          IF @[1] > ho THEN <<U16(ho), @[2]>> ELSE @], "scroll_left")

app_scroll_right(e) ==
    LET ho == e.horizontal_offset + 10
        y == e.cursor_position[2]
        line_len == Len(RopeLine(e.rope, y))
    IN  IF ~RopeLineOk(e.rope, y) THEN Arm(Panic(e), "scroll_right")
        ELSE Arm([e EXCEPT !.horizontal_offset = ho,
                           !.cursor_position =
                               IF @[1] < ho /\ ho < line_len THEN <<U16(ho), @[2]>> ELSE @],
                 "scroll_right")

\* the Enter arm of a non-empty command_buffer
app_command(e, write_ok) ==
    IF e.command_buffer = <<":", "w">>
        THEN IF app_save_ok(e, write_ok)
                 THEN Arm([save_file(e, write_ok) EXCEPT !.command_buffer = <<>>], "save_file")
                 ELSE Arm(Exited(save_file(e, write_ok)), "save_failed")
    ELSE IF e.command_buffer = <<":", "q">> THEN Arm(Exited(e), "quit")
    ELSE IF e.command_buffer = <<":", "w", "q">>
        THEN IF app_save_ok(e, write_ok)
                 THEN Arm(Exited(save_file(e, write_ok)), "save_file_quit")
                 ELSE Arm(Exited(save_file(e, write_ok)), "save_failed")
    ELSE Arm([e EXCEPT !.command_buffer = <<>>], "no_command")

\* run_app's match on the key: the first arm whose pattern and guard hold
app_match(e, key, build, write_ok) ==
    IF IsChar(key, "c", "CONTROL") THEN Arm(Exited(e), "quit")
    ELSE IF IsChar(key, "q", "NONE") /\ ~e.insert_mode THEN Arm(Exited(e), "quit")
    ELSE IF IsChar(key, "i", "NONE") /\ ~e.insert_mode
        THEN Arm([e EXCEPT !.insert_mode = TRUE], "insert_mode")
    ELSE IF IsCode(key, "Esc", "NONE") /\ e.insert_mode
        THEN Arm([e EXCEPT !.insert_mode = FALSE], "normal_mode")
    ELSE IF IsChar(key, ":", "NONE") /\ ~e.insert_mode
        THEN Arm([e EXCEPT !.command_buffer = Append(@, ":")], "command")
    ELSE IF IsCode(key, "Enter", "NONE") /\ e.command_buffer # <<>>
        THEN app_command(e, write_ok)
    ELSE IF IsCode(key, "Backspace", "NONE") /\ e.command_buffer # <<>>
        THEN Arm([e EXCEPT !.command_buffer = SubSeq(@, 1, Len(@) - 1)], "command")
    ELSE IF key.code = "Char" /\ key.mods = "NONE"
        THEN IF e.insert_mode THEN app_insert(e, <<key.ch>>, <<1, 0>>, build, "insert")
             ELSE IF e.command_buffer # <<>>
                 THEN Arm([e EXCEPT !.command_buffer = Append(@, key.ch)], "command")
             ELSE Arm(e, "none")
    ELSE IF IsCode(key, "Up", "NONE") THEN Arm(app_move_cursor(e, <<0, -1>>, build), "move")
    ELSE IF IsCode(key, "Down", "NONE") THEN Arm(app_move_cursor(e, <<0, 1>>, build), "move")
    ELSE IF IsCode(key, "Left", "NONE") THEN Arm(app_move_cursor(e, <<-1, 0>>, build), "move")
    ELSE IF IsCode(key, "Right", "NONE") THEN Arm(app_move_cursor(e, <<1, 0>>, build), "move")
    ELSE IF IsCode(key, "PageUp", "NONE")
        THEN Arm(app_move_cursor(e, <<0, -SatSub(e.viewport_height, 1)>>, build), "move")
    ELSE IF IsCode(key, "PageDown", "NONE")
        THEN Arm(app_move_cursor(e, <<0, SatSub(e.viewport_height, 1)>>, build), "move")
    ELSE IF IsCode(key, "Home", "NONE")
        THEN Arm([e EXCEPT !.cursor_position = <<0, @[2]>>, !.horizontal_offset = 0], "home")
    ELSE IF IsCode(key, "End", "NONE") THEN app_end(e)
    ELSE IF IsCode(key, "Backspace", "NONE") /\ e.insert_mode THEN app_backspace(e, build)
    ELSE IF IsCode(key, "Delete", "NONE") /\ e.insert_mode THEN app_delete(e)
    ELSE IF IsCode(key, "Tab", "NONE") /\ e.insert_mode
        THEN app_insert(e, <<" ", " ", " ", " ">>, <<4, 0>>, build, "tab")
    ELSE IF IsCode(key, "Enter", "NONE") /\ e.insert_mode THEN app_enter(e)
    ELSE IF IsCode(key, "Left", "CONTROL") THEN app_scroll_left(e)
    ELSE IF IsCode(key, "Right", "CONTROL") THEN app_scroll_right(e)
    ELSE Arm(e, "none")

\* one turn of run_app's loop from the key read to the next frame: a
\* duplicate in insert mode is dropped, any other key is remembered and
\* matched; the frame is drawn unless the loop was left
run_app(e, key, build, write_ok, size) ==
    IF e.insert_mode /\ is_duplicate_key_event(e, key)
        THEN Arm(ui([e EXCEPT !.last_key_event = NoKey], size), "discarded")
    ELSE LET arm == app_match([e EXCEPT !.last_key_event = key], key, build, write_ok)
         IN  IF arm.ed.exited \/ arm.ed.panicked THEN arm
             ELSE Arm(ui(arm.ed, size), arm.op)

\* longest text, longest command and farthest horizontal offset of CimApp
MaxApp == 2
MaxCommand == 3
MaxShift == 10

\* the size of the terminal, <<height, width>>: one line of text, and one
\* column left of the width after the line numbers
AppSizes == {<<3, 6>>}

\* the key events delivered while the text is edited: every arm of the match
\* but those of the command line
AppKeys ==
    {[code |-> "Char", ch |-> c, mods |-> "NONE"] : c \in {"a", "i"}}
    \cup {[code |-> "Char", ch |-> "c", mods |-> "CONTROL"],
          [code |-> "Char", ch |-> "a", mods |-> "SHIFT"]}
    \cup {[code |-> k, ch |-> "", mods |-> "NONE"] :
             k \in {"Esc", "Enter", "Backspace", "Up", "Down", "Left", "Right",
                    "PageUp", "PageDown", "Home", "End", "Delete", "Tab"}}
    \cup {[code |-> k, ch |-> "", mods |-> "CONTROL"] : k \in {"Left", "Right"}}

\* the key events delivered while commands are typed
CommandKeys ==
    {[code |-> "Char", ch |-> c, mods |-> "NONE"] : c \in {"a", "q", "w", "i", ":"}}
    \cup {[code |-> "Char", ch |-> "c", mods |-> "CONTROL"]}
    \cup {[code |-> k, ch |-> "", mods |-> "NONE"] : k \in {"Esc", "Enter", "Backspace"}}

\* CimApp::new on a readable file or without one, and the first frame
AppInit ==
    /\ \E text \in Documents(MaxApp), has_path \in BOOLEAN, size \in AppSizes :
           /\ has_path \/ text = <<>>
           /\ editor = ui(AppNew(has_path, TRUE, text), size)
    /\ last = Did("new", <<>>, None)

\* the key events whose handling depends on the build: those that reach
\* move_cursor in a viewport without height or without room for the text
AppUsesBuild(e, key) ==
    /\ key.code \in {"Up", "Down", "Left", "Right", "PageUp", "PageDown",
                      "Backspace", "Tab", "Char"}
    /\ e.viewport_height = 0 \/ e.viewport_width <= 5

\* one key event through run_app, in a terminal that keeps its size; the
\* history keeps the key and whether the write went through
AppKey(key, build, write_ok) ==
    LET size == <<editor.viewport_height + 2, editor.viewport_width>>
        out == run_app(editor, key, build, write_ok, size)
    IN  /\ ~editor.panicked /\ ~editor.exited
        /\ (editor.insert_mode /\ key.code = "Char" /\ key.mods = "NONE")
               => key.ch \in {"a", "i"}
        /\ build = "debug" => AppUsesBuild(editor, key)
        /\ ~write_ok => (IsCode(key, "Enter", "NONE") /\ editor.command_buffer # <<>>)
        /\ Len(out.ed.string) <= MaxApp
        /\ Len(out.ed.command_buffer) <= MaxCommand
        /\ out.ed.horizontal_offset <= MaxShift
        /\ editor' = out.ed
        /\ last' = Did(out.op, <<key, write_ok>>, None)

AppNext ==
    \E key \in AppKeys, build \in Builds, write_ok \in BOOLEAN : AppKey(key, build, write_ok)

SpecApp == AppInit /\ [][AppNext]_vars

CommandNext ==
    \E key \in CommandKeys, build \in Builds, write_ok \in BOOLEAN : AppKey(key, build, write_ok)

SpecCommand == AppInit /\ [][CommandNext]_vars

----------------------------------------------------------------------------
(* Claims *)

\* C1: in every state reached by key events the cursor column respects the
\* mode-dependent bound: in Normal mode on a non-empty line it is at most
\* line_length - 1, in Insert mode or on an empty line at most line_length.
C1_ColumnBound ==
    (~panicked /\ cursor_position[2] < DocLineCount(buffer)) =>
        LET len == LineLength(buffer, cursor_position[2])
        IN  /\ (mode = "Normal" /\ len > 0) => cursor_position[1] <= len - 1
            /\ (mode = "Insert" \/ len = 0) => cursor_position[1] <= len

\* C2: in every state reached by key events the cursor line is a line of the
\* document: 0 <= line < line_count, where a trailing unterminated line
\* counts and the count is at least 1.
C2_LineInRange ==
    /\ cursor_position[2] >= 0
    /\ cursor_position[2] < DocLineCount(buffer)

\* C2 witness: the cursor was moved down onto the last line of a document of
\* two or more lines.
C2_Witness ==
    /\ last.op = "move_cursor"
    /\ last.arg = <<0, 1>>
    /\ cursor_position[2] >= 1
    /\ cursor_position[2] = DocLineCount(buffer) - 1

\* C3: the cursor is re-clamped on a mode change: right after an
\* Insert-to-Normal transition on a non-empty line, column <= line_length - 1.
C3_ReclampOnModeChange ==
    [][(mode = "Insert" /\ mode' = "Normal" /\ ~panicked')
          => LET len == LineLength(buffer', cursor_position'[2])
             IN  len > 0 => cursor_position'[1] <= len - 1]_vars

\* C4: in Insert mode, inserting a character c other than the newline with
\* the cursor at (column, line) puts c at index column of that line, keeps
\* every other character, and leaves the cursor at (column + 1, line), for
\* every document, the empty one and an unterminated single line included.
C4_InsertChar ==
    [][\A c \in TypedChars :
          (/\ mode = "Insert"
           /\ ValidCursor(buffer, mode, cursor_position)
           /\ last'.op = "insert_char" /\ last'.arg = <<c>>
           /\ ~panicked')
          => /\ buffer' = InsertInLine(buffer, cursor_position[1], cursor_position[2], c)
             /\ cursor_position' = <<cursor_position[1] + 1, cursor_position[2]>>]_vars

\* C5: inserting '\n' with the cursor at (column, line) splits the line at the
\* column: what is before the cursor stays on the line, what is from the
\* cursor on becomes the next line, and the cursor ends at (0, line + 1),
\* also when the new line is the last, unterminated line of the document.
C5_InsertNewline ==
    [][(/\ last'.op = "insert_char" /\ last'.arg = <<NL>>
        /\ ValidCursor(buffer, mode, cursor_position)
        /\ ~panicked')
          => /\ Pieces(buffer') = LET p == Pieces(buffer)
                                      x == cursor_position[1]
                                      y == cursor_position[2]
                                  IN  SubSeq(p, 1, y) \o << SubSeq(p[y + 1], 1, x) >>
                                      \o << SubSeq(p[y + 1], x + 1, Len(p[y + 1])) >>
                                      \o SubSeq(p, y + 2, Len(p))
             /\ cursor_position' = <<0, cursor_position[2] + 1>>]_vars

\* C6: Backspace with the cursor at column 0 of a line > 0 removes exactly the
\* newline that joins the line to the previous one and leaves the cursor at
\* (previous_line_length, line - 1); "ab\ncd" with the cursor at (0, 1)
\* becomes "abcd" with the cursor at (2, 0).  Stated for the modes in which
\* the column previous_line_length is a valid one on the joined line.
C6_BackspaceJoin ==
    [][(/\ last'.op = "delete_char"
        /\ cursor_position[1] = 0 /\ cursor_position[2] > 0
        /\ ValidCursor(buffer, mode, cursor_position)
        /\ ~panicked')
          => LET p == Pieces(buffer)
                 y == cursor_position[2]
                 prev_len == LineLength(buffer, y - 1)
             IN  /\ Pieces(buffer') = SubSeq(p, 1, y - 1) \o << p[y] \o p[y + 1] >>
                                      \o SubSeq(p, y + 2, Len(p))
                 /\ prev_len <= MaxColumn(buffer', mode, y - 1)
                        => cursor_position' = <<prev_len, y - 1>>]_vars

\* C7: Backspace with the cursor at column > 0 removes exactly the character
\* before the cursor, keeps every other character and the line index, and
\* decrements the column by 1.
C7_BackspaceInLine ==
    [][(/\ last'.op = "delete_char"
        /\ cursor_position[1] > 0
        /\ ValidCursor(buffer, mode, cursor_position)
        /\ ~panicked')
          => /\ buffer' = DeleteInLine(buffer, cursor_position[1] - 1, cursor_position[2])
             /\ cursor_position' = <<cursor_position[1] - 1, cursor_position[2]>>]_vars

\* C8: round trip: in Insert mode, from every document and valid cursor,
\* inserting a character other than the newline and then Backspace gives back
\* the document and the cursor.
C8_RoundTrip ==
    (mode = "Insert" /\ ~panicked /\ ValidCursor(buffer, mode, cursor_position)) =>
        \A c \in TypedChars :
            LET back == delete_char(insert_char(editor, c))
            IN  /\ ~back.panicked
                /\ back.buffer = buffer
                /\ back.cursor_position = cursor_position

\* C9: move_cursor(dx, dy) saturates: from a valid cursor the line becomes
\* clamp(line + dy, 0, line_count - 1) and the column
\* clamp(column + dx, 0, max_x), max_x the largest valid column of that line.
C9_MoveSaturates ==
    [][(/\ last'.op = "move_cursor"
        /\ ValidCursor(buffer, mode, cursor_position)
        /\ ~panicked')
          => LET y == Clamp(cursor_position[2] + last'.arg[2], 0, DocLineCount(buffer) - 1)
                 x == Clamp(cursor_position[1] + last'.arg[1], 0, MaxColumn(buffer, mode, y))
             IN  cursor_position' = <<x, y>>]_vars

\* C10: normalize_cursor is idempotent: after one call, a second call leaves
\* cursor_position, scroll_offset and horizontal_offset as they are.
C10_NormalizeIdempotent ==
    last.op = "normalize_cursor" =>
        LET again == normalize_cursor(editor)
        IN  /\ again.cursor_position = cursor_position
            /\ again.scroll_offset = scroll_offset
            /\ again.horizontal_offset = horizontal_offset

\* C10 witness: a call that moved the cursor back into the document and
\* scrolled the viewport under a margin.
C10_Witness ==
    /\ last.op = "normalize_cursor"
    /\ last.arg # cursor_position
    /\ viewport_height >= 4
    /\ scroll_offset > 0

\* C11: the initial mode is Normal, and the only mode transitions a key event
\* causes are Normal->Insert, Insert->Normal, Normal->Command and
\* Command->Normal: never Command->Insert nor Insert->Command.
C11_ModeTransitions ==
    /\ mode = "Normal"
    /\ [][mode' # mode =>
             <<mode, mode'>> \in {<<"Normal", "Insert">>, <<"Insert", "Normal">>,
                                  <<"Normal", "Command">>, <<"Command", "Normal">>}]_vars

\* C12: an InsertChar(c) action delivered while the mode is Normal or Command
\* is ignored: no action is returned and the buffer, the modified flag, the
\* cursor, the offsets and the mode are as before.
C12_InsertCharIgnored ==
    [][(last'.op \in {"insert_char", "insert_ignored"} /\ mode # "Insert")
          => /\ last'.ret = None
             /\ editor' = editor]_vars

\* C12 witness: a character typed in Command mode on a document that has text
C12_Witness ==
    /\ last.op = "insert_ignored" /\ last.arg = <<"a">>
    /\ mode = "Command"
    /\ buffer # <<>>

\* the offset the margin rule gives: from offset `off`, cursor coordinate v,
\* window size `size` and margin `margin`
MarginRule(off, v, size, margin) ==
    IF v < off + margin THEN Max(0, v - margin)
    ELSE IF v >= off + size - margin THEN Max(0, v + margin - size)
    ELSE off

\* C13: update_viewport sets scroll_offset by the margin rule with
\* margin = min(2, viewport_height / 4), then clamps it to
\* max(0, line_count - viewport_height), line_count being the number of lines
\* of the document.
C13_VerticalRule ==
    [][(last'.op = "update_viewport" /\ ValidCursor(buffer, mode, cursor_position))
          => scroll_offset' =
                 Min(MarginRule(scroll_offset, cursor_position[2], viewport_height,
                                Min(2, viewport_height \div 4)),
                     Max(0, DocLineCount(buffer) - viewport_height))]_vars

\* C14: in every state reached by key events in a viewport of a fixed size,
\* scroll_offset <= max(0, line_count - viewport_height), also after PageUp
\* and PageDown, which change scroll_offset themselves.
C14_ScrollBound ==
    scroll_offset <= Max(0, DocLineCount(buffer) - viewport_height)

\* C14 witness: PageDown has scrolled a document taller than the viewport as
\* far as the bound allows
C14_Witness ==
    /\ last.op = "page_down"
    /\ viewport_height >= 2
    /\ scroll_offset >= 1
    /\ scroll_offset = DocLineCount(buffer) - viewport_height

\* C15: after every cursor move, page move and edit, all of which recompute
\* the viewport, and with viewport_height >= 1, the cursor line lies within
\* [scroll_offset, scroll_offset + viewport_height).
C15_CursorLineVisible ==
    (/\ viewport_height >= 1
     /\ last.op \in {"move_cursor", "page_up", "page_down",
                     "insert_char", "delete_char", "insert_tab"}
     /\ ~panicked)
        => /\ scroll_offset <= cursor_position[2]
           /\ cursor_position[2] < scroll_offset + viewport_height

\* C16: update_viewport sets horizontal_offset by the margin rule with
\* h_margin = min(5, viewport_width / 4), and with viewport_width >= 1 the
\* cursor column then lies within
\* [horizontal_offset, horizontal_offset + viewport_width).
C16_HorizontalRule ==
    [][(last'.op = "update_viewport" /\ ValidCursor(buffer, mode, cursor_position))
          => /\ horizontal_offset' =
                    MarginRule(horizontal_offset, cursor_position[1], viewport_width,
                               Min(5, viewport_width \div 4))
             /\ viewport_width >= 1
                    => /\ horizontal_offset' <= cursor_position'[1]
                       /\ cursor_position'[1] < horizontal_offset' + viewport_width']_vars

\* C17: update_viewport is idempotent: called again with the cursor and the
\* viewport as they are, it leaves scroll_offset and horizontal_offset as
\* the first call set them.
C17_ViewportIdempotent ==
    last.op = "update_viewport" =>
        LET again == update_viewport(editor)
        IN  /\ again.scroll_offset = scroll_offset
            /\ again.horizontal_offset = horizontal_offset

\* C17 witness: a call that scrolled horizontally under a margin
C17_Witness ==
    /\ last.op = "update_viewport"
    /\ last.arg[2] # horizontal_offset
    /\ viewport_width >= 4
    /\ horizontal_offset > 0

SetMin(S) == CHOOSE v \in S : \A w \in S : v <= w
SetMax(S) == CHOOSE v \in S : \A w \in S : v >= w

\* the characters of the cursor's line
CursorLine == DocLines(buffer)[cursor_position[2] + 1]

\* the column forward word motion lands on from column x of a line: past the
\* word under the cursor if there is one, then past the non-word characters
ForwardTarget(chars, x) ==
    IF x >= Len(chars) THEN Len(chars)
    ELSE LET stop == IF IsWordChar(chars[x + 1])
                         THEN SetMin({j \in x..Len(chars) :
                                         j = Len(chars) \/ ~IsWordChar(chars[j + 1])})
                         ELSE x
         IN  SetMin({j \in stop..Len(chars) : j = Len(chars) \/ IsWordChar(chars[j + 1])})

\* the column backward word motion lands on from column x > 0 of a line: from
\* x - 1 leftward past the non-word characters, then to the start of the word
BackwardTarget(chars, x) ==
    LET from == Min(x, Len(chars)) - 1
        p == SetMax({j \in 0..from : j = 0 \/ IsWordChar(chars[j + 1])})
    IN  SetMin({j \in 0..p : \A k \in j..(p - 1) : IsWordChar(chars[k + 1])})

\* C18: forward word motion skips to the end of the word under the cursor, if
\* there is one, then skips the non-word characters, and lands on the first
\* character of the next word or at the line end, never beyond.
C18_WordForward ==
    [][(/\ last'.op = "move_cursor_word" /\ last'.arg[1] > 0
        /\ ValidCursor(buffer, mode, cursor_position))
          => cursor_position' =
                 <<ForwardTarget(CursorLine, cursor_position[1]), cursor_position[2]>>]_vars

\* C19: backward word motion from column > 0 starts at column - 1, skips the
\* non-word characters leftward, then the word characters, and lands on the
\* first character of the word to the left; at column 0 it does nothing.
C19_WordBackward ==
    [][(/\ last'.op = "move_cursor_word" /\ last'.arg[1] < 0
        /\ ValidCursor(buffer, mode, cursor_position))
          => cursor_position' =
                 IF cursor_position[1] = 0 THEN cursor_position
                 ELSE <<BackwardTarget(CursorLine, cursor_position[1]), cursor_position[2]>>]_vars

\* C20: on the line "foo  bar_baz = 1", forward word motion from column 0
\* lands at column 5 and from column 5 at column 13 (the '='), and backward
\* word motion from column 13 lands at column 5.  Stated for the line ended
\* by a newline.
C20_WordExample ==
    [][(last'.op = "move_cursor_word" /\ CursorLine = Example /\ Terminated(buffer))
          => /\ (last'.arg[1] > 0 /\ cursor_position[1] = 0) => cursor_position'[1] = 5
             /\ (last'.arg[1] > 0 /\ cursor_position[1] = 5) => cursor_position'[1] = 13
             /\ (last'.arg[1] < 0 /\ cursor_position[1] = 13) => cursor_position'[1] = 5]_vars

\* C21: word motion operates on the current line only: move_cursor_word
\* leaves the cursor line, the buffer and the modified flag as they are, and
\* the resulting column is at most the number of characters of the line.
C21_WordStaysOnLine ==
    [][last'.op = "move_cursor_word"
          => /\ cursor_position'[2] = cursor_position[2]
             /\ buffer' = buffer
             /\ modified' = modified
             /\ cursor_position'[1] <= LineLength(buffer, cursor_position[2])]_vars

\* C21 witness: a forward motion that ran to the end of the first of two lines
C21_Witness ==
    /\ last.op = "move_cursor_word" /\ last.arg = <<1>>
    /\ mode = "Normal"
    /\ DocLineCount(buffer) = 2
    /\ cursor_position[2] = 0
    /\ cursor_position[1] = LineLength(buffer, 0)
    /\ cursor_position[1] > 0

C23_SaveClearsModified ==
    [][last'.op \in {"save", "save_failed"}
          => IF file_path /\ last'.arg[2] THEN ~modified'
             ELSE modified' = modified]_vars

\* C24: when the write fails, Save and SaveExit return no action and leave
\* the editor as it was; when it succeeds Save returns no action and SaveExit
\* returns Exit.
C24_SaveAborts ==
    [][last'.op \in {"save", "save_failed"}
          => IF file_path /\ ~last'.arg[2]
                 THEN last'.ret = None /\ editor' = editor
                 ELSE last'.ret = (IF last'.arg[1].tag = "SaveExit"
                                       THEN Act("Exit", <<>>) ELSE None)]_vars

\* C24 witness: SaveExit on an edited buffer whose write failed
C24_Witness ==
    /\ last.op \in {"save", "save_failed"}
    /\ last.arg[1].tag = "SaveExit" /\ ~last.arg[2]
    /\ file_path /\ modified /\ text_changed
    /\ last.ret = None

\* C25: boundary conditions never abort: Backspace at (0,0) leaves buffer,
\* cursor and modified unchanged, and move_cursor, page_up and page_down
\* complete normally on every buffer.
C25_BoundariesNeverAbort ==
    [][/\ (last'.op = "delete_char" /\ cursor_position = <<0, 0>>)
              => /\ ~panicked'
                 /\ buffer' = buffer
                 /\ cursor_position' = cursor_position
                 /\ modified' = modified
       /\ last'.op \in {"move_cursor", "page_up", "page_down"} => ~panicked']_vars

\* C26: TextBuffer remove_char(pos) removes the character at pos when pos is
\* less than the length (one character fewer, modified true), and otherwise
\* leaves content and modified unchanged.
C26_RemoveChar ==
    [][last'.op = "buffer_remove_char"
          => LET pos == last'.arg[1]
             IN  IF pos < ByteLen(buffer)
                     THEN /\ ~panicked'
                          /\ Len(buffer') = Len(buffer) - 1
                          /\ buffer' = SubSeq(buffer, 1, CharsBefore(buffer, pos))
                                          \o SubSeq(buffer, CharsBefore(buffer, pos) + 2, Len(buffer))
                          /\ modified'
                     ELSE buffer' = buffer /\ modified' = modified /\ ~panicked']_vars

\* C27: the line count the engine reports is at least 1, and counts a
\* trailing unterminated line as a line.
C27_LineCount ==
    /\ total_lines(editor) >= 1
    /\ total_lines(editor) = DocLineCount(buffer)

\* C28: in Insert mode every key event other than Esc, a character with no
\* modifier or Shift, Backspace, unmodified Tab and the unmodified arrows is
\* ignored: no action is returned and the editor is unchanged.
C28_InsertIgnoresOtherKeys ==
    [][(/\ last'.op # "new"
        /\ mode = "Insert"
        /\ LET key == last'.arg[1]
           IN  ~ \/ key.code \in {"Esc", "Backspace"}
                 \/ key.code = "Char" /\ key.mods \in {"NONE", "SHIFT"}
                 \/ key.code \in {"Tab", "Up", "Down", "Left", "Right"} /\ key.mods = "NONE")
          => last'.ret = None /\ editor' = editor]_vars

\* C28 witness: Ctrl+a in Insert mode, ignored
C28_Witness ==
    /\ last.op = "ignored"
    /\ last.arg = <<[code |-> "Char", ch |-> "a", mods |-> "CONTROL"]>>
    /\ mode = "Insert"
    /\ last.ret = None
    /\ buffer # <<>>

\* C29: the movement actions return no action and leave buffer, modified,
\* text_changed and mode unchanged.
C29_MovementFrame ==
    [][(/\ last'.op \notin {"new", "draw_ui"}
        /\ last'.arg[1].tag \in MovementTags
        /\ ~panicked')
          => /\ last'.ret = None
             /\ buffer' = buffer
             /\ modified' = modified
             /\ text_changed' = text_changed
             /\ mode' = mode
             /\ editor'.highlighted_lines = editor.highlighted_lines]_vars

\* C29 witness: a cursor moved down on an edited buffer
C29_Witness ==
    /\ last.op = "move_cursor" /\ last.arg[1] = Act("MoveCursor", <<0, 1>>)
    /\ ~panicked
    /\ cursor_position[2] = 1
    /\ modified
    /\ last.ret = None

\* C30: at each draw_ui the highlighted lines that are rendered were computed
\* from the current buffer content.
C30_HighlightCurrent ==
    [][last'.op = "draw_ui" => editor'.highlighted_lines = highlight(buffer')]_vars

\* C31: after a frame has set a new viewport size, and before the next key
\* event, the cursor line lies within
\* [scroll_offset, scroll_offset + viewport_height) and
\* scroll_offset <= max(0, line_count - viewport_height).
C31_ResizeRecomputes ==
    (last.op = "draw_ui" /\ ~panicked)
        => /\ scroll_offset <= cursor_position[2]
           /\ cursor_position[2] < scroll_offset + viewport_height
           /\ scroll_offset <= Max(0, DocLineCount(buffer) - viewport_height)

\* C32: a failure to read the file at startup is not fatal: the editor is
\* constructed, with an empty buffer, in Normal mode, with the cursor at
\* (0,0).
C32_ReadFailureNotFatal ==
    [][(last.op = "main" /\ last.arg[1] /\ ~last.arg[2])
          => /\ last'.ret = Act("Ok", <<>>)
             /\ IF last'.op = "CimEditor::new"
                    THEN /\ buffer' = <<>>
                         /\ mode' = "Normal"
                         /\ cursor_position' = <<0, 0>>
                    ELSE /\ editor'.rope = <<>>
                         /\ editor'.string = <<>>
                         /\ ~editor'.insert_mode
                         /\ editor'.cursor_position = <<0, 0>>]_vars

\* C33: outside insert mode, ':' 'w' 'q' and Enter save the file and then
\* exit: the 'q' typed after ":w" goes into the command and the loop is not
\* left before save_file has run; ":w" and Enter save without leaving the
\* loop, ":q" and Enter leave it without saving.
C33_WriteQuit ==
    [][last'.op # "new"
          => LET key == last'.arg[1]
                 enter == IsCode(key, "Enter", "NONE")
                 command == editor.command_buffer
             IN  /\ (~editor.insert_mode /\ command = <<":", "w">> /\ IsChar(key, "q", "NONE"))
                        => /\ ~editor'.exited
                           /\ editor'.command_buffer = <<":", "w", "q">>
                 /\ (command = <<":", "w", "q">> /\ enter /\ app_save_ok(editor, last'.arg[2]))
                        => /\ last'.op = "save_file_quit"
                           /\ editor'.exited
                           /\ editor.file_path => editor'.disk = editor.string
                 /\ (command = <<":", "w">> /\ enter /\ app_save_ok(editor, last'.arg[2]))
                        => /\ last'.op = "save_file"
                           /\ ~editor'.exited
                           /\ editor.file_path => editor'.disk = editor.string
                 /\ (command = <<":", "q">> /\ enter)
                        => /\ editor'.exited
                           /\ editor'.disk = editor.disk]_vars

\* C38: in insert mode a key event with the code and the modifiers of the
\* key event processed just before is dropped: text, cursor and mode are
\* unchanged and last_key_event is none again; every other key event, and
\* every key event outside insert mode, is processed and remembered.
C38_DuplicateDropped ==
    [][(last'.op # "new" /\ ~editor'.panicked)
          => LET key == last'.arg[1]
                 before == editor.last_key_event
             IN  IF /\ editor.insert_mode
                    /\ before # NoKey
                    /\ before.code = key.code /\ before.ch = key.ch
                    /\ before.mods = key.mods
                     THEN /\ editor'.string = editor.string
                          /\ editor'.cursor_position = editor.cursor_position
                          /\ editor'.insert_mode
                          /\ ~editor'.exited
                          /\ editor'.last_key_event = NoKey
                     ELSE editor'.last_key_event = key]_vars

\* C38 witness: the second of two 'a' typed in insert mode, dropped
C38_Witness ==
    /\ last.op = "discarded"
    /\ last.arg[1] = [code |-> "Char", ch |-> "a", mods |-> "NONE"]
    /\ editor.insert_mode
    /\ editor.last_key_event = NoKey
    /\ editor.string = <<"a">>

\* C34: typing preserves order: after the character keys c1 .. cn delivered
\* to the empty buffer in Insert mode, the buffer holds c1 .. cn and the
\* cursor is at column n.
C34_TypingPreservesOrder ==
    (last.op = "typed" /\ ~panicked)
        => /\ buffer = last.arg
           /\ cursor_position = <<Len(last.arg), 0>>

C36_OnlyBackspaceEdits ==
    [][(last'.op # "new" /\ mode \in {"Normal", "Command"} /\ ~panicked')
          => LET key == last'.arg[1]
                 typed == handle_input([editor EXCEPT !.mode = "Insert"], key, "release", TRUE)
             IN  IF IsCode(key, "Backspace", "NONE")
                     THEN /\ buffer' = typed.ed.buffer
                          /\ modified' = typed.ed.modified
                     ELSE /\ buffer' = buffer
                          /\ modified' = modified]_vars

\* C36 witness: Backspace in Normal mode has deleted a character
C36_Witness ==
    /\ last.op = "delete_char"
    /\ last.arg = <<[code |-> "Backspace", ch |-> "", mods |-> "NONE"]>>
    /\ mode = "Normal"
    /\ ~panicked
    /\ modified
    /\ Len(buffer) = MaxDoc - 1

\* C37: an unmodified Esc key, handled in any of the three modes, leaves
\* the mode Normal, returns ChangeMode(false), and changes neither the
\* buffer content nor the cursor line.
C37_EscLeadsToNormal ==
    [][(last'.op # "new" /\ last'.arg = <<[code |-> "Esc", ch |-> "", mods |-> "NONE"]>>)
          => /\ ~panicked'
             /\ mode' = "Normal"
             /\ last'.ret = Act("ChangeMode", <<FALSE>>)
             /\ buffer' = buffer
             /\ cursor_position'[2] = cursor_position[2]]_vars

\* C37 witness: Esc has been handled in Insert mode with the cursor past the
\* first line of a modified buffer
C37_Witness ==
    /\ last.op = "escape"
    /\ last.arg = <<[code |-> "Esc", ch |-> "", mods |-> "NONE"]>>
    /\ mode = "Normal"
    /\ modified
    /\ cursor_position[2] > 0

====
